---- MODULE Spec2Model ----
(***************************************************************************)
(* State-machine model of the TradingView -> Binance futures bot           *)
(* (app/tv-binance-bot): the trailing-stop worker, the stop calculator,    *)
(* the portfolio controller and the position lifecycle.                    *)
(*                                                                         *)
(* Python floats are modelled as exact rationals <<n, d>> with d > 0 in    *)
(* lowest terms; Python's None is the pair <<0, 0>>.  Quantities and       *)
(* leverages are integers.                                                 *)
(***************************************************************************)
EXTENDS Integers, Sequences, FiniteSets, TLC

\* ---------------------------------------------------------------- numbers
None == <<0, 0>>
IsNone(x) == x[2] = 0
Abs(x) == IF x < 0 THEN -x ELSE x

\* GCD and R bind their arguments to values before using them, so that an
\* argument is computed once however often it is used
RECURSIVE GCD(_, _)
GCD(a, b) ==
    IF b = 0 THEN a
    ELSE IF b = 1 THEN 1
    ELSE CHOOSE g \in {GCD(y, x % y) : x \in {a}, y \in {b}} : TRUE

Lowest(n, d, g) ==
    IF d < 0 THEN <<(-n) \div g, (-d) \div g>> ELSE <<n \div g, d \div g>>

R(n, d) ==
    IF d = 1 THEN <<n, 1>>
    ELSE CHOOSE r \in {Lowest(x, y, GCD(Abs(x), Abs(y))) : x \in {n}, y \in {d}} : TRUE

Zero == R(0, 1)
One == R(1, 1)
Hundred == R(100, 1)
RAdd(a, b) == R(a[1] * b[2] + b[1] * a[2], a[2] * b[2])
RSub(a, b) == R(a[1] * b[2] - b[1] * a[2], a[2] * b[2])
RMul(a, b) == R(a[1] * b[1], a[2] * b[2])
RDiv(a, b) == R(a[1] * b[2], a[2] * b[1])
RLt(a, b) == a[1] * b[2] < b[1] * a[2]
RLe(a, b) == a[1] * b[2] <= b[1] * a[2]
RGt(a, b) == RLt(b, a)
RGe(a, b) == RLe(b, a)
RAbs(a) == IF a[1] < 0 THEN <<-a[1], a[2]>> ELSE a
RMax(a, b) == IF RGt(a, b) THEN a ELSE b
RMin(a, b) == IF RLt(a, b) THEN a ELSE b

\* ------------------------------------------------- module-level constants
DYN_PROFIT_THRESHOLD_PCT == R(1, 1)
DYN_LOCK_RATIO_DEFAULT == R(1, 2)
DYN_BASE_SL_PCT == R(3, 1)
DefaultLeverage == 20

\* ------------------------------------------------------------------ state
VARIABLES
    positions,         \* table "positions": sequence of rows, id = index
    mark,              \* exchange: mark price per symbol
    exch,              \* exchange: one-way position per symbol
    TRAILING_CONFIG,   \* global trailing settings
    tracking,          \* _non_bot_position_tracking
    portfolio_config,  \* PortfolioTrailingConfig row (id = 1)
    max_pnl_reached,   \* _portfolio_trailing_runtime_state["max_pnl_reached"]
    overrides,         \* _binance_position_stop_overrides
    bot_configs,       \* table "bot_configs"
    running,           \* _trailing_worker_running
    pc,                \* where the worker is in its cycle
    pending,           \* rows loaded by this cycle and not yet checked
    ev,                \* observation of the operation just performed
    budget,            \* what the environment may still do in this behaviour:
                       \* the exchange calls that may fail, how many failures
                       \* and how many moves of the mark are still to come
    last,              \* per row: mode of its latest worker evaluation and the
                       \* latest dynamic stop price computed for it
    tv_signal_logs,    \* table "tv_signal_logs": the rows the duplicate check reads
    now                \* the clock, in seconds

vars == <<positions, mark, exch, TRAILING_CONFIG, tracking, portfolio_config,
          max_pnl_reached, overrides, bot_configs, running, pc, pending, ev,
          budget, last, tv_signal_logs, now>>

cfgVars == <<TRAILING_CONFIG, portfolio_config, overrides, bot_configs>>
workerVars == <<running, pc, pending>>

Sides == {"LONG", "SHORT"}

\* ------------------------------------------------------- stop calculator
StopState(m, b, d) ==
    [stop_mode |-> m, base_stop_price |-> b, dynamic_stop_price |-> d]

get_config_for_side(side) ==
    IF side = "LONG" THEN TRAILING_CONFIG.long_config
    ELSE IF side = "SHORT" THEN TRAILING_CONFIG.short_config
    ELSE TRAILING_CONFIG.long_config

\* faulty variant: an override of 0 is taken for "not set"
lock_ratio_zero_as_unset(position) ==
    LET side_config == get_config_for_side(position.side)
        raw == IF IsNone(position.trail_callback) \/ position.trail_callback = Zero
               THEN side_config.lock_ratio
               ELSE position.trail_callback
    IN  IF RLe(raw, Zero) THEN None ELSE IF RGt(raw, One) THEN One ELSE raw

lock_ratio(position) ==
    LET side_config == get_config_for_side(position.side)
        trail_callback_override == position.trail_callback
        raw == IF IsNone(trail_callback_override)
               THEN (IF ~IsNone(side_config.lock_ratio) THEN side_config.lock_ratio
                     ELSE DYN_LOCK_RATIO_DEFAULT)
               ELSE IF trail_callback_override = Zero THEN None
               ELSE trail_callback_override
    IN  IF IsNone(raw) THEN None
        ELSE IF RLe(raw, Zero) THEN None
        ELSE IF RGt(raw, One) THEN One
        ELSE raw

base_sl_pct(position) ==
    LET side_config == get_config_for_side(position.side)
    IN  IF ~IsNone(position.base_stop_loss_pct) THEN position.base_stop_loss_pct
        ELSE IF ~IsNone(side_config.base_sl_pct) THEN side_config.base_sl_pct
        ELSE DYN_BASE_SL_PCT

profit_threshold_pct(position) ==
    LET side_config == get_config_for_side(position.side)
    IN  IF ~IsNone(position.dyn_profit_threshold_pct) THEN position.dyn_profit_threshold_pct
        ELSE IF ~IsNone(side_config.profit_threshold_pct) THEN side_config.profit_threshold_pct
        ELSE DYN_PROFIT_THRESHOLD_PCT

has_override(position) ==
    \/ ~IsNone(position.trail_callback)
    \/ ~IsNone(position.dyn_profit_threshold_pct)
    \/ ~IsNone(position.base_stop_loss_pct)

\* best as the calculator sees it: the stored extreme moved to the mark when
\* the mark is more favourable (never written back by the calculator)
best_of(position, mark_price) ==
    LET best0 == IF IsNone(position.highest_price) THEN mark_price
                 ELSE position.highest_price
    IN  IF position.side = "LONG"
        THEN (IF RGt(mark_price, best0) THEN mark_price ELSE best0)
        ELSE (IF RLt(mark_price, best0) THEN mark_price ELSE best0)

\* favourable distance from entry to x
gain(side, entry, x) ==
    IF side = "LONG" THEN RSub(x, entry) ELSE RSub(entry, x)

profit_pct_based_on_best_for_threshold(position, mark_price, unrealized_pnl_pct) ==
    LET entry == position.entry_price
        best == best_of(position, mark_price)
        profit_pct == RMul(RDiv(gain(position.side, entry, best), entry), Hundred)
    IN  IF ~IsNone(unrealized_pnl_pct)
        THEN IF mark_price # entry /\ RGt(entry, Zero)
             THEN RMul(unrealized_pnl_pct,
                       RDiv(gain(position.side, entry, best),
                            gain(position.side, entry, mark_price)))
             ELSE unrealized_pnl_pct
        ELSE profit_pct

\* faulty variant: the distance is the percentage of the extreme price
base_stop_price_pct_of_price(position, mark_price, leverage, qty) ==
    LET best == best_of(position, mark_price)
        sl == base_sl_pct(position)
    IN  IF RGt(sl, Zero) /\ RGt(position.entry_price, Zero) /\ qty > 0 /\ leverage > 0
        THEN (IF position.side = "LONG"
              THEN RSub(best, RDiv(RMul(best, sl), Hundred))
              ELSE RAdd(best, RDiv(RMul(best, sl), Hundred)))
        ELSE None

base_stop_price(position, mark_price, leverage, qty) ==
    LET entry == position.entry_price
        best == best_of(position, mark_price)
        sl == base_sl_pct(position)
    IN  IF RGt(sl, Zero) /\ RGt(entry, Zero) /\ qty > 0 /\ leverage > 0
        THEN LET notional == RMul(entry, R(qty, 1))
                 margin == RDiv(notional, R(leverage, 1))
                 dist == RDiv(RDiv(RMul(margin, sl), Hundred), R(qty, 1))
             IN  IF position.side = "LONG" THEN RSub(best, dist) ELSE RAdd(best, dist)
        ELSE None

\* faulty variant: the stop follows the current mark instead of the extreme
dynamic_stop_price_from_mark(position, mark_price) ==
    LET entry == position.entry_price
    IN  IF position.side = "LONG"
        THEN RAdd(entry, RMul(RSub(mark_price, entry), lock_ratio(position)))
        ELSE RSub(entry, RMul(RSub(entry, mark_price), lock_ratio(position)))

dynamic_stop_price(position, mark_price) ==
    LET entry == position.entry_price
        best == best_of(position, mark_price)
    IN  IF position.side = "LONG"
        THEN RAdd(entry, RMul(RSub(best, entry), lock_ratio(position)))
        ELSE RSub(entry, RMul(RSub(entry, best), lock_ratio(position)))

\* faulty variant: only an entry price of exactly zero is turned away
entry_invalid_zero_only(entry) == entry = Zero

\* `if entry <= 0`
entry_invalid(entry) == RLe(entry, Zero)

compute_stop_state(position, mark_price, unrealized_pnl_pct, leverage, qty) ==
    IF entry_invalid(position.entry_price) THEN StopState("none", None, None)
    ELSE IF position.side \notin Sides THEN StopState("none", None, None)
    ELSE
    LET lr == lock_ratio(position)
        effective_trailing_enabled ==
            TRAILING_CONFIG.trailing_enabled \/ (has_override(position) /\ ~IsNone(lr))
        pb == profit_pct_based_on_best_for_threshold(position, mark_price, unrealized_pnl_pct)
        thr == profit_threshold_pct(position)
        isDynamic == effective_trailing_enabled /\ ~IsNone(lr) /\ RGe(pb, thr)
        isBase == /\ ~isDynamic
                  /\ RGt(base_sl_pct(position), Zero)
                  /\ (RLt(pb, thr) \/ has_override(position))
    IN  StopState(IF isDynamic THEN "dynamic" ELSE IF isBase THEN "base" ELSE "none",
                  base_stop_price(position, mark_price, leverage, qty),
                  IF isDynamic THEN dynamic_stop_price(position, mark_price) ELSE None)

\* ------------------------------------------------------------ bounds, data
MinPrice == 98
MaxPrice == 102
MaxPositions == 2
MaxExchQty == 2
MaxFaults == 1
NearSpread == 2
MaxMoves == 2

Prices == {R(p, 1) : p \in MinPrice..MaxPrice}
Ids == 1..MaxPositions

\* bot_configs rows: bot 1 trades with leverage 1 and the global lock ratio,
\* bot 2 with the default leverage and a 25 % callback of its own; E is the
\* set of enabled bots
BotIds == {1, 2}
BotConfig(E) ==
    [b \in BotIds |->
        IF b = 1
        THEN [enabled |-> b \in E, symbol |-> "BTCUSDT", qty |-> 1, leverage |-> 1,
              max_invest_usdt |-> None,
              use_dynamic_stop |-> FALSE, trailing_callback_percent |-> None]
        ELSE [enabled |-> b \in E, symbol |-> "BTCUSDT", qty |-> 1,
              leverage |-> DefaultLeverage, max_invest_usdt |-> None,
              use_dynamic_stop |-> TRUE, trailing_callback_percent |-> R(25, 1)]]

Position(bot_id, symbol, side, qty, entry_price, highest_price, trail_callback) ==
    [bot_id |-> bot_id, symbol |-> symbol, side |-> side, qty |-> qty,
     entry_price |-> entry_price, status |-> "OPEN",
     highest_price |-> highest_price, trail_callback |-> trail_callback,
     dyn_profit_threshold_pct |-> None, base_stop_loss_pct |-> None,
     bot_stop_loss_enabled |-> TRUE, tv_signal_close_enabled |-> TRUE,
     exit_price |-> None, exit_reason |-> ""]

TrailingSideConfig == [profit_threshold_pct |-> R(1, 1), lock_ratio |-> R(2, 3),
                       base_sl_pct |-> R(1, 2)]
TrailingConfig == [trailing_enabled |-> TRUE, long_config |-> TrailingSideConfig,
                   short_config |-> TrailingSideConfig, auto_close_enabled |-> TRUE]

Flat == [amt |-> 0, entryPrice |-> Zero, leverage |-> DefaultLeverage]

NoEv == [op |-> "", pid |-> 0, case |-> "", evaluated |-> FALSE, rejected |-> FALSE,
         state |-> StopState("", None, None), markp |-> None, orders |-> {},
         total_pnl |-> None, raised |-> FALSE, reported |-> {}, handled |-> {},
         failed |-> {}, signal |-> <<>>, target |-> None]
NoLast == <<"", None>>

\* `last` is kept for OPEN rows only
Kept(rows) ==
    [i \in Ids |-> IF i <= Len(rows) /\ rows[i].status = "OPEN" THEN last[i] ELSE NoLast]

Symbols == DOMAIN mark
Keys == Symbols \X Sides
KeyOf(row) == <<row.symbol, row.side>>
\* faulty variant: the status filter dropped from the queries
AnyStatusIds == 1..Len(positions)

OpenIds == {i \in 1..Len(positions) : positions[i].status = "OPEN"}

\* ---------------------------------------------------- exchange (one-way mode)
ExchSide(sym) == IF exch[sym].amt > 0 THEN "LONG" ELSE "SHORT"
HasLive(sym) == exch[sym].amt # 0

\* unRealizedProfit as futures_position_information reports it
unRealizedProfit(sym) ==
    RMul(R(exch[sym].amt, 1), RSub(mark[sym], exch[sym].entryPrice))

\* a reduce-only market order against the side `side`: the exchange takes it
\* only while a position of that side is live
CanReduce(sym, side) == HasLive(sym) /\ ExchSide(sym) = side

Reduced(x, qty) ==
    LET left == IF Abs(x.amt) > qty THEN Abs(x.amt) - qty ELSE 0
    IN  IF left = 0 THEN [x EXCEPT !.amt = 0, !.entryPrice = Zero]
        ELSE [x EXCEPT !.amt = IF x.amt > 0 THEN left ELSE -left]

\* a market order opening or adding `qty` on `side`, filled at the mark
Filled(x, side, qty, price, leverage) ==
    LET signed == IF side = "LONG" THEN qty ELSE -qty
        amt == x.amt + signed
    IN  IF amt = 0 THEN [x EXCEPT !.amt = 0, !.entryPrice = Zero, !.leverage = leverage]
        ELSE IF x.amt = 0 \/ (x.amt > 0) # (amt > 0)
        THEN [amt |-> amt, entryPrice |-> price, leverage |-> leverage]
        ELSE [x EXCEPT !.amt = amt, !.leverage = leverage]

\* faulty variant: no price is taken from the order
exit_price_unavailable(sym) == None

\* exit price of an accepted close order (avgPrice of the fill)
get_exit_price_from_order(sym) == mark[sym]

\* the exchange calls, out of those an operation makes, that fail this time
Failing(made) ==
    {F \in SUBSET (made \cap budget.calls) : Cardinality(F) <= budget.faults}

Spent(F) == [budget EXCEPT !.faults = @ - Cardinality(F)]

\* ------------------------------------------------------------ environment
PriceMoveIn(S) ==
    \E s \in Symbols, p \in S :
        /\ p # mark[s]
        /\ mark' = [mark EXCEPT ![s] = p]
        /\ ev' = NoEv
        /\ UNCHANGED <<positions, exch, tracking, max_pnl_reached, cfgVars,
                       workerVars, last, tv_signal_logs, now>>

PriceMove == PriceMoveIn(Prices) /\ UNCHANGED budget

\* a move of the mark between two worker cycles, out of the few moves of a
\* behaviour, within NearSpread above 100
PriceMoveNear ==
    /\ pc = "sleep"
    /\ budget.moves > 0
    /\ PriceMoveIn({R(p, 1) : p \in 100..(100 + NearSpread)})
    /\ budget' = [budget EXCEPT !.moves = @ - 1]

\* ------------------------------------------------------------------ worker
\* faulty variant: the leverage of the bot is not looked up
bot_leverage_default(position) == DefaultLeverage

bot_leverage(position) ==
    IF position.bot_id # 0 THEN bot_configs[position.bot_id].leverage ELSE DefaultLeverage

calculated_unrealized_pnl_pct(position, mark_price, leverage) ==
    LET entry == position.entry_price
        amount == RMul(gain(position.side, entry, mark_price), R(position.qty, 1))
        notional == RMul(entry, R(position.qty, 1))
    IN  IF RGt(entry, Zero) /\ position.qty > 0 /\ RGt(notional, Zero) /\ leverage > 0
        THEN RMul(RDiv(amount, RDiv(notional, R(leverage, 1))), Hundred)
        ELSE None

\* faulty variant: a mark exactly on the stop does not count
crossed_strictly(side, mark_price, stop) ==
    /\ ~IsNone(stop)
    /\ IF side = "LONG" THEN RLt(mark_price, stop) ELSE RGt(mark_price, stop)

\* LONG: the mark fell to the stop or below; SHORT: rose to it or above
crossed(side, mark_price, stop) ==
    /\ ~IsNone(stop)
    /\ IF side = "LONG" THEN RLe(mark_price, stop) ELSE RGe(mark_price, stop)

\* faulty variant: only the base stop is looked at, whatever the mode
triggered_base_only(side, mark_price, stop_state) ==
    crossed(side, mark_price, stop_state.base_stop_price)

triggered(side, mark_price, stop_state) ==
    IF stop_state.stop_mode = "dynamic"
    THEN crossed(side, mark_price, stop_state.dynamic_stop_price)
    ELSE IF stop_state.stop_mode = "base"
    THEN crossed(side, mark_price, stop_state.base_stop_price)
    ELSE FALSE

\* faulty variant: the stored extreme simply follows the mark
new_extreme_unguarded(side, best, current_price) == current_price

\* the stored extreme after the worker has looked at the mark
new_extreme(side, best, current_price) ==
    IF side = "LONG"
    THEN (IF RGt(current_price, best) THEN current_price ELSE best)
    ELSE (IF RLt(current_price, best) THEN current_price ELSE best)

\* entry price <= 0: take the exchange's entry price for the same side
corrected_entry(position, current_price) ==
    LET x == exch[position.symbol]
    IN  IF /\ RLe(position.entry_price, Zero)
           /\ HasLive(position.symbol)
           /\ ExchSide(position.symbol) = position.side
           /\ RGt(x.entryPrice, Zero)
        THEN [position EXCEPT
                !.entry_price = x.entryPrice,
                !.highest_price = IF IsNone(@) \/ RLe(@, Zero) THEN current_price ELSE @]
        ELSE position

\* the task starts: it raises the flag and reaches the head of its loop
trailing_stop_worker_start ==
    /\ pc = "start"
    /\ running' = TRUE
    /\ pc' = "sleep"
    /\ ev' = [NoEv EXCEPT !.op = "start"]
    /\ UNCHANGED <<tv_signal_logs, now, positions, mark, exch, tracking, max_pnl_reached, cfgVars,
                   pending, budget, last>>

\* faulty variant: the loop does not look at the flag
loop_continues_unchecked == TRUE

\* while _trailing_worker_running
loop_continues == running

\* faulty variant: an error of the cycle escapes the loop
after_cycle_error_escaped == "stopped"

\* except + finally of the cycle, then the sleep before the next cycle
after_cycle_error == "sleep"

\* faulty variant: an exception in one evaluation ends the loop over the rows
remaining_after_raise(rows, raised) == IF raised THEN <<>> ELSE Tail(rows)

\* the rows still to evaluate after one evaluation, whether or not it raised
remaining(rows, raised) == Tail(rows)

\* the head of the loop: the query for the rows to check, which may raise
trailing_stop_worker_load ==
    /\ loop_continues
    /\ pc = "sleep"
    /\ \E F \in Failing({"db"}) :
        /\ budget' = Spent(F)
        /\ pc' = IF F = {} THEN "check" ELSE after_cycle_error
        /\ pending' = IF F = {}
                      THEN SelectSeq([i \in 1..Len(positions) |-> i],
                                     LAMBDA i : /\ positions[i].status = "OPEN"
                                                /\ positions[i].bot_stop_loss_enabled)
                      ELSE <<>>
        /\ ev' = [NoEv EXCEPT !.op = "load", !.raised = F # {}]
    /\ UNCHANGED <<tv_signal_logs, now, positions, mark, exch, tracking, max_pnl_reached, cfgVars,
                   running, last>>

\* the head of the loop with the flag lowered: the task ends
trailing_stop_worker_exit ==
    /\ ~loop_continues
    /\ pc = "sleep"
    /\ pc' = "stopped"
    /\ ev' = [NoEv EXCEPT !.op = "exit"]
    /\ UNCHANGED <<tv_signal_logs, now, positions, mark, exch, tracking, max_pnl_reached, cfgVars,
                   running, pending, budget, last>>

\* the stop state of a row as the worker asks for it: with the PnL% on the
\* row's margin and the leverage of its bot
worker_stop_state(position, current_price) ==
    compute_stop_state(position, current_price,
        calculated_unrealized_pnl_pct(position, current_price, bot_leverage(position)),
        bot_leverage(position), position.qty)

check_trailing_stop ==
    /\ pc = "check"
    /\ pending # <<>>
    /\ \E F \in Failing({"close", "mark_price"}), id \in {Head(pending)} :
       \E position \in {positions[id]} :
       \E current_price \in {mark[position.symbol]} :
       \E pos1 \in {corrected_entry(position, current_price)} :
       \E pos2 \in {[pos1 EXCEPT !.highest_price =
                         new_extreme(pos1.side, pos1.highest_price, current_price)]} :
       \E stop_state \in {worker_stop_state(pos2, current_price)} :
       \E fire \in {triggered(pos2.side, current_price, stop_state)} :
        LET best == pos1.highest_price
            accepted == F = {} /\ CanReduce(pos2.symbol, pos2.side)
            me == [NoEv EXCEPT !.op = "check_trailing_stop", !.pid = id,
                               !.markp = current_price]
            evaluates == /\ position.bot_stop_loss_enabled
                         /\ RGt(pos1.entry_price, Zero)
                         /\ ~IsNone(best)
        IN  /\ "close" \in F => (evaluates /\ fire /\ CanReduce(pos2.symbol, pos2.side))
            /\ "mark_price" \in F => (F = {"mark_price"} /\ position.bot_stop_loss_enabled)
            /\ budget' = Spent(F)
            /\ pending' = remaining(pending, "mark_price" \in F \/ (evaluates /\ fire /\ ~accepted))
            /\ IF ~position.bot_stop_loss_enabled
               THEN /\ ev' = me
                    /\ UNCHANGED <<positions, exch, last>>
               ELSE IF "mark_price" \in F
               THEN /\ ev' = [me EXCEPT !.raised = TRUE, !.markp = None]
                    /\ UNCHANGED <<positions, exch, last>>
               ELSE IF RLe(pos1.entry_price, Zero)
               THEN /\ ev' = me
                    /\ UNCHANGED <<positions, exch, last>>
               ELSE IF IsNone(best)
               THEN /\ positions' = [positions EXCEPT ![id] =
                                        [pos1 EXCEPT !.highest_price = current_price]]
                    /\ ev' = me
                    /\ UNCHANGED <<exch, last>>
               ELSE /\ ev' = [me EXCEPT
                                !.evaluated = TRUE, !.state = stop_state,
                                !.raised = fire /\ ~accepted,
                                !.orders = IF fire
                                           THEN {[key |-> KeyOf(pos2), ok |-> accepted,
                                                  rows |-> {id}]}
                                           ELSE {}]
                    /\ last' = [last EXCEPT ![id] =
                                   IF fire THEN NoLast
                                   ELSE <<stop_state.stop_mode,
                                          IF IsNone(stop_state.dynamic_stop_price) THEN @[2]
                                          ELSE stop_state.dynamic_stop_price>>]
                    /\ IF ~fire
                       THEN /\ positions' = [positions EXCEPT ![id] = pos2]
                            /\ UNCHANGED exch
                       ELSE IF accepted
                       THEN /\ positions' = [positions EXCEPT ![id] =
                                   [pos2 EXCEPT
                                       !.status = "CLOSED",
                                       !.exit_price = get_exit_price_from_order(pos2.symbol),
                                       !.exit_reason = IF stop_state.stop_mode = "dynamic"
                                                       THEN "dynamic_stop" ELSE "base_stop"]]
                            /\ exch' = [exch EXCEPT ![pos2.symbol] = Reduced(@, pos2.qty)]
                       ELSE /\ positions' = [positions EXCEPT ![id] =
                                   [pos2 EXCEPT !.status = "ERROR"]]
                            /\ UNCHANGED exch
    /\ UNCHANGED <<tv_signal_logs, now, mark, tracking, max_pnl_reached, cfgVars, running, pc>>

\* ---------------------------------------------- worker: non-bot positions
NoTrack == [entry_price |-> None, highest_price |-> None]
NoOverride == [trail_callback |-> None, dyn_profit_threshold_pct |-> None,
               base_stop_loss_pct |-> None]
EntryTolerance == R(1, 1000)


RECURSIVE SeqOf(_)
SeqOf(S) == IF S = {} THEN <<>> ELSE LET x == CHOOSE y \in S : TRUE IN <<x>> \o SeqOf(S \ {x})

\* faulty variant: the lookup reuses the worker's filter on the toggle
local_pos_stop_enabled(sym, side) ==
    {i \in OpenIds : /\ positions[i].symbol = sym /\ positions[i].side = side
                     /\ positions[i].bot_stop_loss_enabled}

\* OPEN local row for the symbol and side, whatever its mechanism toggles
local_pos(sym, side) ==
    {i \in OpenIds : positions[i].symbol = sym /\ positions[i].side = side}

\* the tracked entry is missing or differs from the exchange's entry price
entry_changed(tracked_entry, entry_price) ==
    \/ IsNone(tracked_entry)
    \/ RGt(RDiv(RAbs(RSub(tracked_entry, entry_price)),
                RMax(RMax(RAbs(tracked_entry), RAbs(entry_price)), One)),
           EntryTolerance)

\* faulty variant: the tracked extreme follows the mark
tracked_highest_from_mark(side_local, highest0, entry_price, mark_price) == mark_price

\* the tracked extreme after this look at the mark
tracked_highest(side_local, highest0, entry_price, mark_price) ==
    IF side_local = "LONG"
    THEN (IF IsNone(highest0)
          THEN (IF RGt(entry_price, Zero) THEN RMax(mark_price, entry_price)
                ELSE mark_price)
          ELSE RMax(highest0, mark_price))
    ELSE (IF IsNone(highest0)
          THEN (IF RGt(entry_price, Zero) THEN RMin(mark_price, entry_price)
                ELSE mark_price)
          ELSE RMin(highest0, mark_price))

\* the entry of _non_bot_position_tracking for the live position of sym
non_bot_track(sym) ==
    LET tracked == tracking[<<sym, ExchSide(sym)>>]
        moved == entry_changed(tracked.entry_price, exch[sym].entryPrice)
    IN  [entry_price |-> IF moved THEN exch[sym].entryPrice ELSE tracked.entry_price,
         highest_price |->
             tracked_highest(ExchSide(sym),
                             IF moved THEN None ELSE tracked.highest_price,
                             exch[sym].entryPrice, mark[sym])]

\* the stand-in for a Position row that the non-bot branch evaluates
TempPosition(sym, track) ==
    LET o == overrides[<<sym, ExchSide(sym)>>]
    IN  [entry_price |-> IF track.entry_price # Zero THEN track.entry_price
                         ELSE exch[sym].entryPrice,
         side |-> ExchSide(sym), highest_price |-> track.highest_price,
         trail_callback |-> o.trail_callback,
         dyn_profit_threshold_pct |-> o.dyn_profit_threshold_pct,
         base_stop_loss_pct |-> o.base_stop_loss_pct, symbol |-> sym]

\* unrealized PnL% of the live position on its margin
non_bot_pnl_pct(sym) ==
    LET x == exch[sym]
        notional == RMul(R(Abs(x.amt), 1), x.entryPrice)
    IN  IF RGt(x.entryPrice, Zero) /\ x.leverage > 0 /\ RGt(notional, Zero)
        THEN RMul(RDiv(unRealizedProfit(sym), RDiv(notional, R(x.leverage, 1))), Hundred)
        ELSE None

non_bot_evaluated(sym, track, temp_pos, stop_state) ==
    [key |-> <<sym, ExchSide(sym)>>,
     track |-> track,
     temp_pos |-> temp_pos,
     stop_state |-> stop_state,
     fire |-> triggered(ExchSide(sym), mark[sym], stop_state)]

non_bot_tracked(sym, track, temp_pos) ==
    CHOOSE it \in
        {non_bot_evaluated(sym, track, temp_pos, stop_state) :
            stop_state \in {compute_stop_state(temp_pos, mark[sym], pnl_pct,
                                               exch[sym].leverage, Abs(exch[sym].amt)) :
                                pnl_pct \in {non_bot_pnl_pct(sym)}}} : TRUE

\* one item of futures_position_information() seen by the non-bot branch
non_bot_item(sym) ==
    CHOOSE it \in
        UNION {{non_bot_tracked(sym, track, temp_pos) :
                    temp_pos \in {TempPosition(sym, track)}} :
                track \in {non_bot_track(sym)}} : TRUE

\* faulty variant: the row is written as an OPEN row
non_bot_row_open(sym, it) ==
    Position(0, sym, it.key[2], Abs(exch[sym].amt), it.temp_pos.entry_price,
             it.track.highest_price, it.temp_pos.trail_callback)

\* the CLOSED row the non-bot branch writes after its close order was taken
non_bot_row(sym, it) ==
    [Position(0, sym, it.key[2], Abs(exch[sym].amt), it.temp_pos.entry_price,
              IF it.track.highest_price # Zero THEN it.track.highest_price ELSE None,
              it.temp_pos.trail_callback)
     EXCEPT
        !.status = "CLOSED",
        !.exit_price = get_exit_price_from_order(sym),
        !.exit_reason = IF it.stop_state.stop_mode = "dynamic"
                        THEN "dynamic_trailing" ELSE "base_stop",
        !.dyn_profit_threshold_pct = it.temp_pos.dyn_profit_threshold_pct,
        !.base_stop_loss_pct = it.temp_pos.base_stop_loss_pct]

\* the loop over the exchange positions: `item` is what the branch computes
\* for a symbol, F the calls that fail, `seen` the live symbols whose turn in
\* the loop came and ended (all of them unless the query for the local row of
\* the symbol `broken` raised, which ends the loop)
non_bot_loop(F, item, seen, broken) ==
    LET items == {s \in seen : local_pos(s, ExchSide(s)) = {}}
        fired == {s \in items : item[s].fire}
        closed == fired \ F
    IN  /\ F \subseteq {"api", "db"} \cup fired
        /\ budget' = Spent(F)
        /\ Len(positions) + Cardinality(closed) <= MaxPositions
        /\ tracking' = [k \in Keys |->
                IF k[1] \in items /\ k = item[k[1]].key
                THEN (IF k[1] \in closed THEN NoTrack ELSE item[k[1]].track)
                ELSE tracking[k]]
        /\ exch' = [s \in Symbols |->
                IF s \in closed THEN Reduced(exch[s], Abs(exch[s].amt)) ELSE exch[s]]
        /\ positions' = positions \o
                [i \in 1..Cardinality(closed) |->
                    non_bot_row(SeqOf(closed)[i], item[SeqOf(closed)[i]])]
        /\ ev' = [NoEv EXCEPT
                    !.op = "check_binance_non_bot_positions",
                    !.reported = IF "api" \in F THEN {} ELSE {s \in Symbols : HasLive(s)},
                    !.handled = seen \ (fired \cap F),
                    !.failed = (fired \cap F) \cup broken,
                    !.orders = {[key |-> item[s].key, ok |-> s \in closed,
                                 rows |-> {i \in OpenIds :
                                             KeyOf(positions[i]) = item[s].key}]
                                : s \in fired}]

check_binance_non_bot_positions ==
    /\ pc = "check"
    /\ pending = <<>>
    /\ \E seen \in SUBSET {s \in Symbols : HasLive(s)} :
       \E item \in {[s \in {x \in seen : local_pos(x, ExchSide(x)) = {}}
                        |-> non_bot_item(s)]} :
       \E F \in Failing({"api", "db"} \cup Symbols) :
       \E broken \in SUBSET ({s \in Symbols : HasLive(s)} \ seen) :
          /\ "api" \in F => seen = {} /\ broken = {}
          /\ "db" \in F => "api" \notin F /\ Cardinality(broken) = 1
          /\ F \cap {"api", "db"} = {} => seen = {s \in Symbols : HasLive(s)}
          /\ non_bot_loop(F, item, seen, broken)
    /\ pc' = "portfolio"
    /\ UNCHANGED <<tv_signal_logs, now, mark, max_pnl_reached, cfgVars, running, pending, last>>

\* ------------------------------------------ worker: portfolio controller
RECURSIVE total_unrealized(_)
total_unrealized(S) ==
    IF S = {} THEN Zero
    ELSE LET s == CHOOSE y \in S : TRUE
         IN  RAdd(unRealizedProfit(s), total_unrealized(S \ {s}))

portfolio_lock_ratio ==
    IF ~IsNone(portfolio_config.lock_ratio) THEN portfolio_config.lock_ratio
    ELSE IF ~IsNone(TRAILING_CONFIG.long_config.lock_ratio)
    THEN TRAILING_CONFIG.long_config.lock_ratio
    ELSE DYN_LOCK_RATIO_DEFAULT

\* faulty variant: the watermark follows every total at or above the target
raised_max_pnl_uncompared(total_pnl) ==
    IF RGe(total_pnl, portfolio_config.target_pnl) THEN total_pnl ELSE max_pnl_reached

\* max_pnl_reached after the tick has looked at the total (before any sale)
raised_max_pnl(total_pnl) ==
    IF /\ RGe(total_pnl, portfolio_config.target_pnl)
       /\ (IsNone(max_pnl_reached) \/ RGt(total_pnl, max_pnl_reached))
    THEN total_pnl
    ELSE max_pnl_reached

\* faulty variant: a total exactly on the threshold does not sell
sell_condition_strict(total_pnl, max1) ==
    /\ ~IsNone(max1)
    /\ RLt(total_pnl, RMul(max1, portfolio_lock_ratio))

\* total_pnl <= sell_threshold, with sell_threshold = max_pnl_reached * lock_ratio
sell_condition(total_pnl, max1) ==
    /\ ~IsNone(max1)
    /\ RLe(total_pnl, RMul(max1, portfolio_lock_ratio))

check_portfolio_trailing_stop ==
    /\ pc = "portfolio"
    /\ \E F \in Failing({"api"} \cup Symbols) :
        LET live == {s \in Symbols : HasLive(s)}
            active == portfolio_config.enabled /\ ~IsNone(portfolio_config.target_pnl)
            total_pnl == total_unrealized(live)
            max1 == raised_max_pnl(total_pnl)
            sell == sell_condition(total_pnl, max1)
            me == [NoEv EXCEPT !.op = "check_portfolio_trailing_stop"]
        IN  /\ F \subseteq IF ~active THEN {}
                            ELSE IF sell THEN {"api"} \cup live ELSE {"api"}
            /\ "api" \in F => F = {"api"}
            /\ budget' = Spent(F)
            /\ IF ~active \/ "api" \in F
               THEN /\ ev' = me
                    /\ UNCHANGED <<exch, max_pnl_reached>>
               ELSE /\ max_pnl_reached' = IF sell THEN None ELSE max1
                    /\ exch' = [s \in Symbols |->
                           IF sell /\ s \in live /\ s \notin F
                           THEN Reduced(exch[s], Abs(exch[s].amt)) ELSE exch[s]]
                    /\ ev' = [me EXCEPT
                               !.evaluated = TRUE, !.total_pnl = total_pnl,
                               !.orders = IF sell
                                          THEN {[key |-> <<s, ExchSide(s)>>, ok |-> s \notin F,
                                                 rows |-> local_pos(s, ExchSide(s))] : s \in live}
                                          ELSE {}]
    /\ pc' = "sleep"
    /\ UNCHANGED <<tv_signal_logs, now, positions, mark, tracking, cfgVars, running, pending, last>>

\* ------------------------------------------------- TradingView webhook
\* values of signal.position_size
TargetSizes == -MaxExchQty..MaxExchQty
RebalanceRatio == R(1, 10)

\* trail_callback given to a row the webhook opens
webhook_trail_callback(bot) ==
    IF bot.use_dynamic_stop /\ ~IsNone(bot.trailing_callback_percent)
    THEN RDiv(bot.trailing_callback_percent, Hundred)
    ELSE IF /\ TRAILING_CONFIG.trailing_enabled
            /\ ~IsNone(TRAILING_CONFIG.long_config.lock_ratio)
            /\ TRAILING_CONFIG.long_config.lock_ratio # Zero
    THEN TRAILING_CONFIG.long_config.lock_ratio
    ELSE None

webhook_row(b, sym, side, qty, entry_price) ==
    LET trail_callback == webhook_trail_callback(bot_configs[b])
    IN  Position(b, sym, side, qty, entry_price,
                 IF ~IsNone(trail_callback) /\ trail_callback # Zero THEN entry_price ELSE None,
                 trail_callback)

\* faulty variant: the toggle of the row is not looked at
honours_tv_signal_close_always(position) == TRUE

\* the row lets a flatten signal close it
honours_tv_signal_close(position) == position.tv_signal_close_enabled

\* the quantity to trade under the bot's max_invest_usdt, at the price read
\* for it (quoted = None: the price could not be read); target_qty = None is
\* the order-based call
calculate_qty_from_max_invest(bot, quoted, target_qty) ==
    IF ~IsNone(bot.max_invest_usdt) /\ RGt(bot.max_invest_usdt, Zero)
    THEN (IF ~IsNone(quoted) /\ RGt(quoted, Zero)
          THEN (IF ~IsNone(target_qty)
                THEN RMin(target_qty, RDiv(bot.max_invest_usdt, quoted))
                ELSE RDiv(bot.max_invest_usdt, quoted))
          ELSE IF ~IsNone(target_qty) THEN target_qty ELSE R(bot.qty, 1))
    ELSE IF ~IsNone(target_qty) THEN target_qty ELSE R(bot.qty, 1)

\* quantities are whole lots: stepSize = minQty = 1
format_quantity(qty) ==
    LET adjusted_qty == qty[1] \div qty[2]
    IN  IF adjusted_qty < 1 THEN 1 ELSE adjusted_qty

\* faulty variant: a difference of exactly 10 % already rebalances
needs_rebalance_from_ratio(diff, current_qty) ==
    RGe(RDiv(RAbs(diff), current_qty), RebalanceRatio)

\* abs(diff) / current_qty > 0.1
needs_rebalance(diff, current_qty) ==
    RGt(RDiv(RAbs(diff), current_qty), RebalanceRatio)

\* what one bot does with a signal: the case, whether it closes the current
\* row, under which exit reason, and what it opens afterwards; EPS lies below
\* the grid of quantities, so abs(x) < EPS is x = 0
webhook_plan(b, has_size, size, side, cur, quoted) ==
    LET cq == IF cur = 0 THEN 0
              ELSE IF positions[cur].side = "LONG" THEN positions[cur].qty
              ELSE -positions[cur].qty
        want == IF size > 0 THEN "LONG" ELSE "SHORT"
        target_qty == calculate_qty_from_max_invest(
                          bot_configs[b], quoted,
                          IF has_size THEN R(Abs(size), 1) ELSE None)
        diff == RSub(target_qty, R(Abs(cq), 1))
        plan(c, closes, reason, open_side, open_qty) ==
            [case |-> c, closes |-> closes, reason |-> reason,
             open_side |-> open_side, open_qty |-> open_qty,
             target_qty |-> IF has_size /\ size # 0 THEN target_qty ELSE None]
    IN  IF ~has_size
        THEN plan("order_based", FALSE, "", IF side = "BUY" THEN "LONG" ELSE "SHORT",
                  format_quantity(target_qty))
        ELSE IF size = 0
        THEN (IF cur = 0 THEN plan("flat_no_position", FALSE, "", "", 0)
              ELSE IF ~honours_tv_signal_close(positions[cur])
              THEN plan("tv_signal_close_disabled", FALSE, "", "", 0)
              ELSE plan("flatten", TRUE, "tv_exit", "", 0))
        ELSE IF cq # 0 /\ (cq > 0) = (size > 0)
        THEN (IF diff = Zero THEN plan("qty_already_match", FALSE, "", "", 0)
              ELSE IF needs_rebalance(diff, R(Abs(cq), 1))
              THEN plan("rebalance", TRUE, "tv_rebalance", want,
                        format_quantity(target_qty))
              ELSE plan("qty_diff_small", FALSE, "", "", 0))
        ELSE IF cq # 0
        THEN plan("reverse", TRUE,
                  IF size > 0 THEN "tv_reverse_to_long" ELSE "tv_reverse_to_short",
                  want, format_quantity(target_qty))
        ELSE plan("open", FALSE, "", want, format_quantity(target_qty))

\* the handler for one bot of the signal, from the point where the signal
\* has passed the duplicate check; has_size tells whether the signal carries
\* a position_size (position-based mode) or not (order-based mode); max_amt
\* bounds the exchange position
webhook_tradingview(b, has_size, size, side, max_amt) ==
    /\ pc = "sleep"
    /\ bot_configs[b].enabled
    /\ \E cur \in 0..Len(positions) :
          /\ LET mine == {i \in OpenIds : /\ positions[i].bot_id = b
                                          /\ positions[i].symbol = bot_configs[b].symbol}
             IN  IF mine = {} \/ ~has_size THEN cur = 0 ELSE cur \in mine
          /\ \E F \in Failing({"close", "open", "price", "quote"}) :
             \E p \in {webhook_plan(b, has_size, size, side, cur,
                                    IF "quote" \in F THEN None
                                    ELSE mark[bot_configs[b].symbol])} :
              LET sym == bot_configs[b].symbol
                  capped == /\ ~IsNone(bot_configs[b].max_invest_usdt)
                            /\ (has_size => size # 0)
                  closed == p.closes /\ "close" \notin F /\ CanReduce(sym, positions[cur].side)
                  exch1 == IF closed THEN Reduced(exch[sym], positions[cur].qty) ELSE exch[sym]
                  opened == p.open_qty > 0 /\ "open" \notin F
                  price_ok == "price" \notin F
                  exch2 == IF opened
                           THEN Filled(exch1, p.open_side, p.open_qty, mark[sym],
                                       bot_configs[b].leverage)
                           ELSE exch1
                  \* order-based: a row even without any price (entry 0.0);
                  \* position-based: no row when no price could be read
                  rowed == opened /\ (p.case = "order_based" \/ price_ok)
                  entry_price == IF price_ok THEN mark[sym] ELSE Zero
                  rows1 == IF closed
                           THEN [positions EXCEPT ![cur] =
                                   [@ EXCEPT !.status = "CLOSED",
                                             !.exit_price = get_exit_price_from_order(sym),
                                             !.exit_reason = p.reason]]
                           ELSE positions
              IN  /\ F \subseteq (IF p.closes /\ CanReduce(sym, positions[cur].side)
                                   THEN {"close"} ELSE {})
                                  \cup (IF p.open_qty > 0 THEN {"open"} ELSE {})
                                  \cup (IF opened THEN {"price"} ELSE {})
                                  \cup (IF capped THEN {"quote"} ELSE {})
                  /\ budget' = Spent(F)
                  /\ Abs(exch2.amt) <= max_amt
                  /\ rowed => Len(positions) < MaxPositions
                  /\ positions' = IF rowed
                                  THEN Append(rows1, webhook_row(b, sym, p.open_side, p.open_qty,
                                                                 entry_price))
                                  ELSE rows1
                  /\ exch' = [exch EXCEPT ![sym] = exch2]
                  /\ last' = Kept(rows1)
                  /\ ev' = [NoEv EXCEPT
                              !.op = "webhook_tradingview", !.pid = cur, !.case = p.case,
                              !.signal = IF has_size THEN <<"position_size", size>>
                                         ELSE <<"side", side>>,
                              !.target = p.target_qty,
                              !.orders = IF p.closes
                                         THEN {[key |-> KeyOf(positions[cur]), ok |-> closed,
                                                rows |-> {cur}]}
                                         ELSE {}]
    /\ UNCHANGED <<mark, tracking, max_pnl_reached, cfgVars, workerVars>>

\* signals that are no repeat of a signal of the last 60 seconds; their rows
\* in tv_signal_logs are not kept
webhook_order_based ==
    /\ \E b \in BotIds, side \in {"BUY", "SELL"} :
          webhook_tradingview(b, FALSE, 0, side, MaxExchQty)
    /\ UNCHANGED <<tv_signal_logs, now>>

webhook_position_based ==
    /\ \E b \in BotIds, size \in TargetSizes :
          webhook_tradingview(b, TRUE, size, "BUY", MaxExchQty)
    /\ UNCHANGED <<tv_signal_logs, now>>

\* ------------------------------------------------------ manual closing
close_position ==
    /\ pc = "sleep"
    /\ \E id \in 1..Len(positions), F \in Failing({"close"}) :
        LET position == positions[id]
            accepted == F = {} /\ CanReduce(position.symbol, position.side)
            me == [NoEv EXCEPT !.op = "close_position", !.pid = id]
        IN  /\ F # {} => (position.status = "OPEN" /\ CanReduce(position.symbol, position.side))
            /\ budget' = Spent(F)
            /\ IF position.status # "OPEN"
               THEN /\ ev' = [me EXCEPT !.rejected = TRUE]
                    /\ UNCHANGED <<positions, exch>>
               ELSE /\ ev' = [me EXCEPT !.orders = {[key |-> KeyOf(position), ok |-> accepted,
                                                     rows |-> {id}]}]
                    /\ IF accepted
                       THEN /\ positions' = [positions EXCEPT ![id] =
                                   [@ EXCEPT !.status = "CLOSED",
                                             !.exit_price = get_exit_price_from_order(position.symbol),
                                             !.exit_reason = "manual_close"]]
                            /\ exch' = [exch EXCEPT ![position.symbol] = Reduced(@, position.qty)]
                       ELSE /\ positions' = [positions EXCEPT ![id] = [@ EXCEPT !.status = "ERROR"]]
                            /\ UNCHANGED exch
    /\ last' = Kept(positions')
    /\ UNCHANGED <<tv_signal_logs, now, mark, tracking, max_pnl_reached, cfgVars, workerVars>>

close_all_binance_positions ==
    /\ pc = "sleep"
    /\ \E F \in Failing(Symbols) :
        LET live == {s \in Symbols : HasLive(s)}
            closed == live \ F
            db_positions_to_update ==
                {i \in OpenIds : /\ positions[i].symbol \in closed
                                 /\ positions[i].side = ExchSide(positions[i].symbol)}
        IN  /\ live # {}
            /\ F \subseteq live
            /\ budget' = Spent(F)
            /\ positions' = [i \in 1..Len(positions) |->
                    IF i \in db_positions_to_update
                    THEN [positions[i] EXCEPT
                            !.status = "CLOSED",
                            !.exit_price = get_exit_price_from_order(positions[i].symbol),
                            !.exit_reason = "manual_close_all"]
                    ELSE positions[i]]
            /\ exch' = [s \in Symbols |->
                    IF s \in closed THEN Reduced(exch[s], Abs(exch[s].amt)) ELSE exch[s]]
            /\ ev' = [NoEv EXCEPT
                        !.op = "close_all_binance_positions",
                        !.orders = {[key |-> <<s, ExchSide(s)>>, ok |-> s \in closed,
                                     rows |-> local_pos(s, ExchSide(s))] : s \in live}]
    /\ last' = Kept(positions')
    /\ UNCHANGED <<tv_signal_logs, now, mark, tracking, max_pnl_reached, cfgVars, workerVars>>

close_binance_live_position ==
    /\ pc = "sleep"
    /\ \E sym \in Symbols, position_side \in Sides, F \in Failing({"close"}) :
        LET matching == local_pos(sym, position_side)
            existing_position == IF matching = {} THEN 0
                                 ELSE CHOOSE i \in matching : \A j \in matching : j <= i
            exit_price == get_exit_price_from_order(sym)
            x == exch[sym]
            me == [NoEv EXCEPT !.op = "close_binance_live_position", !.pid = existing_position]
            synthetic == [Position(0, sym, position_side, Abs(x.amt),
                                   IF RGt(x.entryPrice, Zero) THEN x.entryPrice ELSE exit_price,
                                   None, None)
                          EXCEPT !.status = "CLOSED", !.exit_price = exit_price,
                                 !.exit_reason = "manual_close"]
        IN  /\ F # {} => CanReduce(sym, position_side)
            /\ budget' = Spent(F)
            /\ IF ~CanReduce(sym, position_side)
               THEN /\ ev' = [me EXCEPT !.rejected = TRUE]
                    /\ UNCHANGED <<positions, exch, tracking>>
               ELSE IF F # {}
               THEN /\ ev' = [me EXCEPT !.orders = {[key |-> <<sym, position_side>>, ok |-> FALSE,
                                                     rows |-> matching]}]
                    /\ UNCHANGED <<positions, exch, tracking>>
               ELSE /\ existing_position = 0 => Len(positions) < MaxPositions
                    /\ ev' = [me EXCEPT !.orders = {[key |-> <<sym, position_side>>, ok |-> TRUE,
                                                     rows |-> matching]}]
                    /\ exch' = [exch EXCEPT ![sym] = Reduced(@, Abs(x.amt))]
                    /\ tracking' = [tracking EXCEPT ![<<sym, position_side>>] = NoTrack]
                    /\ positions' =
                           IF existing_position # 0
                           THEN [positions EXCEPT ![existing_position] =
                                   [@ EXCEPT
                                       !.status = "CLOSED", !.exit_price = exit_price,
                                       !.exit_reason = "manual_close",
                                       !.entry_price = IF RGt(x.entryPrice, Zero) /\ RLe(@, Zero)
                                                       THEN x.entryPrice ELSE @]]
                           ELSE Append(positions, synthetic)
    /\ last' = Kept(positions')
    /\ UNCHANGED <<tv_signal_logs, now, mark, max_pnl_reached, cfgVars, workerVars>>

\* ------------------------------------------------------- admin settings
\* request bodies of PATCH /positions/{id}/stop-config
StopConfigUpdates ==
    {[clear_overrides |-> FALSE, dyn_profit_threshold_pct |-> None,
      base_stop_loss_pct |-> R(3, 1), trail_callback |-> None],
     [clear_overrides |-> FALSE, dyn_profit_threshold_pct |-> None,
      base_stop_loss_pct |-> None, trail_callback |-> Zero],
     [clear_overrides |-> FALSE, dyn_profit_threshold_pct |-> None,
      base_stop_loss_pct |-> None, trail_callback |-> R(3, 2)],
     [clear_overrides |-> TRUE, dyn_profit_threshold_pct |-> None,
      base_stop_loss_pct |-> None, trail_callback |-> None]}

clamped(val, lo, hi) ==
    IF RLt(val, lo) THEN lo ELSE IF RGt(val, hi) THEN hi ELSE val

patch_stop_config(updates) ==
    /\ pc = "sleep"
    /\ \E id \in 1..Len(positions), update \in updates :
        LET position == positions[id]
            new == IF update.clear_overrides
                   THEN [position EXCEPT
                            !.dyn_profit_threshold_pct = None,
                            !.base_stop_loss_pct = None,
                            !.trail_callback = IF ~IsNone(update.trail_callback)
                                               THEN update.trail_callback ELSE @]
                   ELSE [position EXCEPT
                            !.dyn_profit_threshold_pct =
                                IF IsNone(update.dyn_profit_threshold_pct) THEN @
                                ELSE RMax(update.dyn_profit_threshold_pct, Zero),
                            !.base_stop_loss_pct =
                                IF IsNone(update.base_stop_loss_pct) THEN @
                                ELSE RMax(update.base_stop_loss_pct, Zero),
                            !.trail_callback =
                                IF IsNone(update.trail_callback) THEN @
                                ELSE clamped(update.trail_callback, Zero, One)]
        IN  /\ positions' = [positions EXCEPT ![id] = new]
            /\ last' = IF new = position THEN last ELSE [last EXCEPT ![id] = NoLast]
            /\ ev' = [NoEv EXCEPT !.op = "update_position_stop_config", !.pid = id]
    /\ UNCHANGED <<tv_signal_logs, now,
                   mark, exch, tracking, max_pnl_reached, cfgVars, workerVars, budget>>

update_position_stop_config == patch_stop_config(StopConfigUpdates)

\* the same endpoint, its bodies including those that clear the overrides and
\* name a lock ratio
update_position_stop_config_any ==
    patch_stop_config(
        StopConfigUpdates
            \cup {[clear_overrides |-> TRUE, dyn_profit_threshold_pct |-> None,
                    base_stop_loss_pct |-> None, trail_callback |-> r] :
                        r \in {R(-1, 2), R(3, 2)}})

update_position_mechanism_config ==
    /\ pc = "sleep"
    /\ \E id \in 1..Len(positions), bot_stop_loss_enabled \in BOOLEAN,
          tv_signal_close_enabled \in BOOLEAN :
        LET me == [NoEv EXCEPT !.op = "update_position_mechanism_config", !.pid = id]
        IN  IF positions[id].status # "OPEN"
            THEN /\ ev' = [me EXCEPT !.rejected = TRUE]
                 /\ UNCHANGED positions
            ELSE /\ ev' = me
                 /\ positions' = [positions EXCEPT ![id] =
                        [@ EXCEPT !.bot_stop_loss_enabled = bot_stop_loss_enabled,
                                  !.tv_signal_close_enabled = tv_signal_close_enabled]]
    /\ UNCHANGED <<tv_signal_logs, now,
                   mark, exch, tracking, max_pnl_reached, cfgVars, workerVars, budget,
                   last>>

\* faulty variant: the extreme is set to the mark whatever it was
initial_extreme_always(best, mark_price) == mark_price

\* the extreme is initialised only where there is none
initial_extreme(best, mark_price) == IF IsNone(best) THEN mark_price ELSE best

\* POST /positions/{id}/trailing with trailing_callback_percent = pct
update_trailing ==
    /\ pc = "sleep"
    /\ \E id \in 1..Len(positions), pct \in {R(-1, 1), Zero, R(50, 1), R(150, 1)},
          F \in Failing({"mark_price"}) :
        LET position == positions[id]
            me == [NoEv EXCEPT !.op = "update_trailing", !.pid = id]
            valid == /\ position.status = "OPEN"
                     /\ ~(RLt(pct, Zero) \/ RGt(pct, Hundred))
            new == [position EXCEPT
                       !.trail_callback = IF pct = Zero THEN Zero ELSE RDiv(pct, Hundred),
                       !.highest_price = initial_extreme(@, mark[position.symbol])]
        IN  /\ F # {} => (valid /\ IsNone(position.highest_price))
            /\ budget' = Spent(F)
            /\ IF ~valid \/ F # {}
               THEN /\ ev' = [me EXCEPT !.rejected = TRUE]
                    /\ UNCHANGED <<positions, last>>
               ELSE /\ ev' = me
                    /\ positions' = [positions EXCEPT ![id] = new]
                    /\ last' = IF new = position THEN last
                               ELSE [last EXCEPT ![id] = NoLast]
    /\ UNCHANGED <<tv_signal_logs, now, mark, exch, tracking, max_pnl_reached, cfgVars, workerVars>>

\* the lock ratio kept for a side: the old one where the body names none, a
\* ratio above 1 forced to 1
stored_lock_ratio(given, old) ==
    IF IsNone(given) THEN old ELSE IF RGt(given, One) THEN One ELSE given

\* faulty variant: each side is written into the global configuration as
\* soon as it has passed its validation
updated_trailing_config_in_place(long_ratio, short_ratio) ==
    IF ~IsNone(long_ratio) /\ RLt(long_ratio, Zero) THEN TRAILING_CONFIG
    ELSE IF ~IsNone(short_ratio) /\ RLt(short_ratio, Zero)
    THEN [TRAILING_CONFIG EXCEPT
            !.long_config.lock_ratio = stored_lock_ratio(long_ratio, @)]
    ELSE [TRAILING_CONFIG EXCEPT
            !.trailing_enabled = TRUE, !.auto_close_enabled = TRUE,
            !.long_config.lock_ratio = stored_lock_ratio(long_ratio, @),
            !.short_config.lock_ratio = stored_lock_ratio(short_ratio, @)]

\* the configuration that is global after the request: the copy `updated`
\* with the body's fields where every one of them passed, the old
\* configuration where a validation raised
updated_trailing_config(long_ratio, short_ratio) ==
    IF \/ ~IsNone(long_ratio) /\ RLt(long_ratio, Zero)
       \/ ~IsNone(short_ratio) /\ RLt(short_ratio, Zero)
    THEN TRAILING_CONFIG
    ELSE [TRAILING_CONFIG EXCEPT
            !.trailing_enabled = TRUE, !.auto_close_enabled = TRUE,
            !.long_config.lock_ratio = stored_lock_ratio(long_ratio, @),
            !.short_config.lock_ratio = stored_lock_ratio(short_ratio, @)]

\* faulty variant: the rows are not filtered by their status
positions_to_update_any_status(side_name, old_ratio) ==
    {i \in 1..Len(positions) :
        /\ positions[i].side = side_name
        /\ positions[i].trail_callback = old_ratio}

\* the rows that follow the global lock ratio of a side: OPEN, of that side,
\* their stored ratio equal to the old global one
positions_to_update(side_name, old_ratio) ==
    {i \in 1..Len(positions) :
        /\ positions[i].status = "OPEN"
        /\ positions[i].side = side_name
        /\ positions[i].trail_callback = old_ratio}

\* POST of the global trailing settings with a lock ratio for the LONG side,
\* for the SHORT side, or for both (None: the body does not name it)
update_trailing_settings ==
    /\ pc = "sleep"
    /\ \E long_ratio \in {None, R(-1, 2), R(3, 2)},
          short_ratio \in {None, R(-1, 2), R(3, 2)} :
        LET invalid == \/ ~IsNone(long_ratio) /\ RLt(long_ratio, Zero)
                       \/ ~IsNone(short_ratio) /\ RLt(short_ratio, Zero)
            old_lock_ratio_long == TRAILING_CONFIG.long_config.lock_ratio
            old_lock_ratio_short == TRAILING_CONFIG.short_config.lock_ratio
            new_long == stored_lock_ratio(long_ratio, old_lock_ratio_long)
            new_short == stored_lock_ratio(short_ratio, old_lock_ratio_short)
            side_config_updated == ~IsNone(long_ratio) \/ ~IsNone(short_ratio)
            followers(side_name, old_ratio, new_ratio) ==
                IF side_config_updated /\ old_ratio # new_ratio
                THEN positions_to_update(side_name, old_ratio) ELSE {}
            long_followers == followers("LONG", old_lock_ratio_long, new_long)
            short_followers == followers("SHORT", old_lock_ratio_short, new_short)
            synced(i) ==
                IF i \in long_followers
                THEN [positions[i] EXCEPT !.trail_callback = new_long]
                ELSE IF i \in short_followers
                THEN [positions[i] EXCEPT !.trail_callback = new_short]
                ELSE positions[i]
            me == [NoEv EXCEPT !.op = "update_trailing_settings"]
        IN  IF invalid
            THEN /\ ev' = [me EXCEPT !.rejected = TRUE]
                 /\ TRAILING_CONFIG' = updated_trailing_config(long_ratio, short_ratio)
                 /\ UNCHANGED <<positions, last>>
            ELSE /\ ev' = [me EXCEPT !.handled = long_followers \cup short_followers]
                 /\ TRAILING_CONFIG' = updated_trailing_config(long_ratio, short_ratio)
                 /\ positions' = [i \in 1..Len(positions) |-> synced(i)]
                 /\ last' = [i \in Ids |->
                                IF i <= Len(positions) /\ synced(i) # positions[i]
                                THEN NoLast ELSE last[i]]
    /\ UNCHANGED <<tv_signal_logs, now,
                   mark, exch, tracking, portfolio_config, max_pnl_reached, overrides,
                   bot_configs, workerVars, budget>>

\* request bodies of the portfolio trailing settings endpoint; `set` names
\* the fields the body carries
PortfolioPayloads ==
    {[set |-> {"enabled", "target_pnl", "lock_ratio"}, enabled |-> TRUE,
      target_pnl |-> R(1, 1), lock_ratio |-> R(1, 4)],
     [set |-> {"target_pnl", "lock_ratio"}, enabled |-> TRUE,
      target_pnl |-> R(2, 1), lock_ratio |-> R(3, 2)],
     [set |-> {"target_pnl"}, enabled |-> TRUE, target_pnl |-> None, lock_ratio |-> None],
     [set |-> {"lock_ratio"}, enabled |-> TRUE, target_pnl |-> None, lock_ratio |-> R(-1, 2)],
     [set |-> {"enabled"}, enabled |-> FALSE, target_pnl |-> None, lock_ratio |-> None]}

update_portfolio_trailing_config ==
    /\ pc = "sleep"
    /\ \E payload \in PortfolioPayloads :
        LET has(f) == f \in payload.set
            invalid == /\ has("lock_ratio")
                       /\ ~IsNone(payload.lock_ratio)
                       /\ RLt(payload.lock_ratio, Zero)
            new_lock == IF ~IsNone(payload.lock_ratio) /\ RGt(payload.lock_ratio, One)
                        THEN One ELSE payload.lock_ratio
            resets == \/ has("enabled") /\ ~payload.enabled
                      \/ /\ has("target_pnl")
                         /\ ~IsNone(payload.target_pnl)
                         /\ payload.target_pnl # portfolio_config.target_pnl
            me == [NoEv EXCEPT !.op = "update_portfolio_trailing_config"]
        IN  IF invalid
            THEN /\ ev' = [me EXCEPT !.rejected = TRUE]
                 /\ UNCHANGED <<portfolio_config, max_pnl_reached>>
            ELSE /\ ev' = me
                 /\ portfolio_config' =
                        [enabled |-> IF has("enabled") THEN payload.enabled
                                     ELSE portfolio_config.enabled,
                         target_pnl |-> IF has("target_pnl") THEN payload.target_pnl
                                        ELSE portfolio_config.target_pnl,
                         lock_ratio |-> IF has("lock_ratio") THEN new_lock
                                        ELSE portfolio_config.lock_ratio]
                 /\ max_pnl_reached' = IF resets THEN None ELSE max_pnl_reached
    /\ UNCHANGED <<tv_signal_logs, now, positions, mark, exch, tracking, TRAILING_CONFIG, overrides,
                   bot_configs, workerVars, budget, last>>

\* ----------------------------------------------- start-up and shutdown
shutdown_event ==
    /\ running
    /\ running' = FALSE
    /\ ev' = [NoEv EXCEPT !.op = "shutdown_event"]
    /\ UNCHANGED <<tv_signal_logs, now,
                   positions, mark, exch, tracking, max_pnl_reached, cfgVars, pc,
                   pending, budget, last>>

\* ------------------------------------ the account traded outside the bot
ExternalTrade ==
    \E s \in Symbols, side \in Sides, leverage \in {1, DefaultLeverage} :
        /\ pc = "sleep"
        /\ ~HasLive(s)
        /\ exch' = [exch EXCEPT ![s] = Filled(@, side, 1, mark[s], leverage)]
        /\ ev' = NoEv
        /\ UNCHANGED <<tv_signal_logs, now,
                       positions, mark, tracking, max_pnl_reached, cfgVars, workerVars,
                       budget, last>>

\* the position is closed on the exchange by hand
ExternalClose ==
    \E s \in Symbols :
        /\ pc = "sleep"
        /\ HasLive(s)
        /\ exch' = [exch EXCEPT ![s] = Reduced(@, Abs(@.amt))]
        /\ ev' = NoEv
        /\ UNCHANGED <<tv_signal_logs, now,
                       positions, mark, tracking, max_pnl_reached, cfgVars, workerVars,
                       budget, last>>

\* GET of the live exchange positions: what it does to the tracking entries
\* (it drops those of a symbol without quantity and follows the others as the
\* worker does); the stop states it computes are only shown
get_binance_open_positions ==
    /\ pc = "sleep"
    /\ tracking' = [k \in Keys |->
            IF ~HasLive(k[1]) THEN NoTrack
            ELSE IF k[2] = ExchSide(k[1]) /\ local_pos(k[1], k[2]) = {}
            THEN non_bot_track(k[1])
            ELSE tracking[k]]
    /\ ev' = [NoEv EXCEPT !.op = "get_binance_open_positions"]
    /\ UNCHANGED <<tv_signal_logs, now,
                   positions, mark, exch, max_pnl_reached, cfgVars, workerVars, budget,
                   last>>

\* ------------------------------------------------------------ first spec
\* module-level state at import time, for an account trading the symbols S
InitShared(S) ==
    /\ mark \in [S -> {R(100, 1)}]
    /\ tracking = [k \in S \X Sides |-> NoTrack]
    /\ overrides = [k \in S \X Sides |-> NoOverride]
    /\ portfolio_config = [enabled |-> FALSE, target_pnl |-> None, lock_ratio |-> None]
    /\ max_pnl_reached = None
    /\ pending = <<>>
    /\ ev = NoEv
    /\ last = [i \in Ids |-> NoLast]
    /\ tv_signal_logs = {}
    /\ now = 0

\* the worker has started and sleeps before its next cycle
InitCommon ==
    /\ InitShared({"BTCUSDT"})
    /\ TRAILING_CONFIG = TrailingConfig
    /\ running = TRUE
    /\ pc = "sleep"

\* exchange calls: closing orders (also named by their symbol where one
\* operation closes several), opening orders, price and account queries
CloseCalls == {"close", "BTCUSDT"}
ExchangeCalls == CloseCalls \cup {"open", "price", "api"}

Init ==
    /\ InitCommon
    /\ budget = [faults |-> MaxFaults, calls |-> ExchangeCalls, moves |-> 0]
    /\ bot_configs = BotConfig(BotIds)
    /\ positions = <<>>
    /\ exch = [s \in {"BTCUSDT"} |-> Flat]

Next ==
    \/ PriceMove
    \/ ExternalTrade
    \/ trailing_stop_worker_start
    \/ trailing_stop_worker_load
    \/ trailing_stop_worker_exit
    \/ check_trailing_stop
    \/ check_binance_non_bot_positions
    \/ check_portfolio_trailing_stop
    \/ shutdown_event
    \/ webhook_order_based
    \/ webhook_position_based
    \/ close_position
    \/ close_all_binance_positions
    \/ close_binance_live_position
    \/ update_position_stop_config
    \/ update_position_mechanism_config
    \/ update_portfolio_trailing_config

Spec == Init /\ [][Next]_vars

\* ------------------------------------------- one position under the worker
\* the state right after one order-based signal opened a row at 100
InitStop ==
    /\ InitCommon
    /\ budget = [faults |-> MaxFaults, calls |-> ExchangeCalls, moves |-> 0]
    /\ bot_configs = BotConfig(BotIds)
    /\ \E b \in BotIds, side \in Sides, price_ok \in BOOLEAN :
        /\ positions = <<webhook_row(b, "BTCUSDT", side, bot_configs[b].qty,
                                     IF price_ok THEN R(100, 1) ELSE Zero)>>
        /\ exch = [s \in {"BTCUSDT"} |->
                     Filled(Flat, side, bot_configs[b].qty, R(100, 1),
                            bot_configs[b].leverage)]

NextStop ==
    \/ PriceMove
    \/ trailing_stop_worker_load
    \/ check_trailing_stop
    \/ check_binance_non_bot_positions
    \/ check_portfolio_trailing_stop
    \/ update_position_stop_config

SpecStop == InitStop /\ [][NextStop]_vars

\* ------------------------------------------------- opening and closing rows
NextClose ==
    \/ PriceMoveNear
    \/ trailing_stop_worker_load
    \/ check_trailing_stop
    \/ check_binance_non_bot_positions
    \/ check_portfolio_trailing_stop
    \/ webhook_position_based
    \/ close_position
    \/ close_all_binance_positions
    \/ close_binance_live_position

\* one enabled bot, no row yet; closing orders are the calls that may fail
InitClose ==
    /\ InitCommon
    /\ budget = [faults |-> MaxFaults, calls |-> CloseCalls, moves |-> MaxMoves]
    /\ bot_configs = BotConfig({1})
    /\ positions = <<>>
    /\ exch = [s \in {"BTCUSDT"} |-> Flat]

SpecClose == InitClose /\ [][NextClose]_vars

\* ------------------------------------- one position and its stop toggle
NextToggle ==
    \/ PriceMove
    \/ trailing_stop_worker_load
    \/ check_trailing_stop
    \/ check_binance_non_bot_positions
    \/ check_portfolio_trailing_stop
    \/ update_position_mechanism_config

SpecToggle == InitStop /\ [][NextToggle]_vars

\* ------------------------------- one position and the portfolio controller
NextPortfolio ==
    \/ PriceMove
    \/ trailing_stop_worker_load
    \/ check_trailing_stop
    \/ check_binance_non_bot_positions
    \/ check_portfolio_trailing_stop
    \/ update_portfolio_trailing_config

SpecPortfolio == InitStop /\ [][NextPortfolio]_vars

\* ------------------------------------- the worker task from start to stop
\* calls of a worker cycle that may fail: the query for the rows, the mark
\* price of a row, the account query of the two later branches
WorkerCalls == {"db", "mark_price", "api"}

\* start-up has created the task, which has not run yet; two bots hold a
\* row each for the same symbol and side, and the exchange position covers
\* both rows or only one of them
InitWorker ==
    /\ InitShared({"BTCUSDT"})
    /\ TRAILING_CONFIG = TrailingConfig
    /\ running = FALSE
    /\ pc = "start"
    /\ budget = [faults |-> MaxFaults, calls |-> WorkerCalls, moves |-> MaxMoves]
    /\ bot_configs = BotConfig(BotIds)
    /\ \E side \in Sides, n \in 1..2 :
        /\ positions = <<webhook_row(1, "BTCUSDT", side, 1, R(100, 1)),
                         webhook_row(2, "BTCUSDT", side, 1, R(100, 1))>>
        /\ exch = [s \in {"BTCUSDT"} |->
                     Filled(Flat, side, n, R(100, 1), bot_configs[n].leverage)]

trailing_stop_worker ==
    \/ trailing_stop_worker_start
    \/ trailing_stop_worker_load
    \/ trailing_stop_worker_exit
    \/ check_trailing_stop
    \/ check_binance_non_bot_positions
    \/ check_portfolio_trailing_stop

NextWorker ==
    \/ PriceMoveNear
    \/ trailing_stop_worker_start
    \/ trailing_stop_worker_load
    \/ trailing_stop_worker_exit
    \/ check_trailing_stop
    \/ check_binance_non_bot_positions
    \/ check_portfolio_trailing_stop
    \/ shutdown_event

\* the event loop resumes the task whenever it can take a step: at its
\* start, and when its sleep of a cycle is over
SpecWorker == InitWorker /\ [][NextWorker]_vars /\ WF_vars(trailing_stop_worker)

\* ------------------------ positions opened by hand on two symbols
NonBotSymbols == {"BTCUSDT", "ETHUSDT"}

\* no bot trades; in a run of the non-bot branch the account query, the
\* query for a local row and the close order of either symbol may fail
InitNonBot ==
    /\ InitShared(NonBotSymbols)
    /\ TRAILING_CONFIG = TrailingConfig
    /\ running = TRUE
    /\ pc = "sleep"
    /\ budget = [faults |-> MaxFaults, calls |-> {"api", "db"} \cup NonBotSymbols,
                 moves |-> MaxMoves]
    /\ bot_configs = BotConfig({})
    /\ positions = <<>>
    /\ exch = [s \in NonBotSymbols |-> Flat]

NextNonBot ==
    \/ PriceMoveNear
    \/ ExternalTrade
    \/ trailing_stop_worker_load
    \/ check_binance_non_bot_positions
    \/ check_portfolio_trailing_stop

SpecNonBot == InitNonBot /\ [][NextNonBot]_vars

\* ------------------------------------------- the stop calculator by itself
\* one row and one global configuration out of: entry prices below, at and
\* above zero; no extreme, extremes on either side of the entry; a lock-ratio
\* override absent, 0, inside and above its range; threshold and base-stop
\* overrides absent or set; trailing globally on or off
InitCalc ==
    /\ InitShared({"BTCUSDT"})
    /\ running = TRUE
    /\ pc = "sleep"
    /\ budget = [faults |-> 0, calls |-> {}, moves |-> 0]
    /\ bot_configs = BotConfig(BotIds)
    /\ exch = [s \in {"BTCUSDT"} |-> Flat]
    /\ \E enabled \in BOOLEAN, lock \in {R(2, 3), One}, thr \in {Zero, R(1, 1)} :
          TRAILING_CONFIG =
              [TrailingConfig EXCEPT
                  !.trailing_enabled = enabled,
                  !.long_config = [@ EXCEPT !.lock_ratio = lock,
                                            !.profit_threshold_pct = thr],
                  !.short_config = [@ EXCEPT !.lock_ratio = lock,
                                             !.profit_threshold_pct = thr]]
    /\ \E side \in Sides,
          entry \in {R(-1, 1), Zero, R(100, 1)},
          best \in {None, R(99, 1), R(101, 1)},
          callback \in {None, Zero, R(1, 2), R(3, 2)},
          threshold \in {None, R(1, 2)},
          base \in {None, Zero, R(3, 1)} :
          positions = <<[Position(1, "BTCUSDT", side, 1, entry, best, callback)
                            EXCEPT !.dyn_profit_threshold_pct = threshold,
                                   !.base_stop_loss_pct = base]>>

\* a call of compute_stop_state for the row, with any mark price, any PnL%
\* (or none) and a leverage
compute_stop_state_call ==
    \E mark_price \in Prices,
       unrealized_pnl_pct \in {None, R(-50, 1), Zero, R(1, 1), R(50, 1)},
       leverage \in {1, DefaultLeverage} :
        /\ ev' = [NoEv EXCEPT
                    !.op = "compute_stop_state", !.pid = 1, !.markp = mark_price,
                    !.total_pnl = unrealized_pnl_pct,
                    !.state = compute_stop_state(positions[1], mark_price,
                                  unrealized_pnl_pct, leverage, positions[1].qty)]
        /\ UNCHANGED <<tv_signal_logs, now,
                       positions, mark, exch, tracking, max_pnl_reached, cfgVars,
                       workerVars, budget, last>>

NextCalc == compute_stop_state_call

SpecCalc == InitCalc /\ [][NextCalc]_vars

\* --------------------------------------- the LONG position of the scenarios
\* marks of the scenarios: below the base stop of either leverage, at the
\* entry, 100.5, 100.9 and 102
ScenarioPrices == {R(97, 1), R(100, 1), R(201, 2), R(1009, 10), R(102, 1)}

PriceMoveScenario == PriceMoveIn(ScenarioPrices) /\ UNCHANGED budget

\* profit threshold 1 %, lock ratio 0.5 and base stop 3 % for both sides; a
\* signal at 100 has opened a LONG row of quantity 1 for bot 1, which trades
\* with leverage 1 or with the default leverage; no call fails
InitScenario ==
    /\ InitShared({"BTCUSDT"})
    /\ TRAILING_CONFIG =
          [TrailingConfig EXCEPT
              !.long_config = [profit_threshold_pct |-> R(1, 1), lock_ratio |-> R(1, 2),
                               base_sl_pct |-> R(3, 1)],
              !.short_config = [profit_threshold_pct |-> R(1, 1), lock_ratio |-> R(1, 2),
                                base_sl_pct |-> R(3, 1)]]
    /\ running = TRUE
    /\ pc = "sleep"
    /\ budget = [faults |-> 0, calls |-> {}, moves |-> 0]
    /\ \E leverage \in {1, DefaultLeverage} :
          bot_configs = [BotConfig(BotIds) EXCEPT ![1].leverage = leverage]
    /\ positions = <<webhook_row(1, "BTCUSDT", "LONG", 1, R(100, 1))>>
    /\ exch = [s \in {"BTCUSDT"} |->
                 Filled(Flat, "LONG", 1, R(100, 1), bot_configs[1].leverage)]

NextScenario ==
    \/ PriceMoveScenario
    \/ trailing_stop_worker_load
    \/ check_trailing_stop
    \/ check_binance_non_bot_positions
    \/ check_portfolio_trailing_stop

SpecScenario == InitScenario /\ [][NextScenario]_vars

\* ------------------------------- signals for a row and its two toggles
NextSignal ==
    \/ PriceMoveNear
    \/ webhook_position_based
    \/ update_position_mechanism_config

SpecSignal == InitClose /\ [][NextSignal]_vars

\* ------------------------- position sizes around a row of ten lots
\* bot 1, with or without an investment cap of 900 USDT, holds the row that a
\* signal opened at 100; further signals carry sizes near its quantity
MaxSizedQty == 24

webhook_sized ==
    /\ \E size \in {-11, -10, 0, 8, 9, 10, 11, 12} :
          webhook_tradingview(1, TRUE, size, "BUY", MaxSizedQty)
    /\ UNCHANGED <<tv_signal_logs, now>>

InitSizing ==
    /\ InitCommon
    /\ budget = [faults |-> MaxFaults, calls |-> {"close", "open", "quote"},
                 moves |-> MaxMoves]
    /\ \E max_invest_usdt \in {None, R(900, 1)} :
          bot_configs = [BotConfig({1}) EXCEPT ![1].max_invest_usdt = max_invest_usdt]
    /\ \E side \in Sides :
          /\ positions = <<webhook_row(1, "BTCUSDT", side, 10, R(100, 1))>>
          /\ exch = [s \in {"BTCUSDT"} |->
                       Filled(Flat, side, 10, R(100, 1), bot_configs[1].leverage)]

NextSizing ==
    \/ PriceMoveNear
    \/ webhook_sized

SpecSizing == InitSizing /\ [][NextSizing]_vars

\* ----------------------- one position, the worker and the administrator
\* a move of the mark between two worker cycles, below, at or above 100
PriceMoveAround ==
    /\ pc = "sleep"
    /\ budget.moves > 0
    /\ PriceMoveIn({R(98, 1), R(100, 1), R(102, 1)})
    /\ budget' = [budget EXCEPT !.moves = @ - 1]

\* bot 1 has opened a row at 100 under a global lock ratio of 2/3 (the row
\* carries it, and the entry price as its extreme) or of 0 (no ratio and no
\* extreme on the row)
InitAdmin ==
    /\ InitShared({"BTCUSDT"})
    /\ \E ratio \in {R(2, 3), Zero} :
          TRAILING_CONFIG =
              [TrailingConfig EXCEPT !.long_config.lock_ratio = ratio,
                                     !.short_config.lock_ratio = ratio]
    /\ running = TRUE
    /\ pc = "sleep"
    /\ budget = [faults |-> MaxFaults, calls |-> {"mark_price"}, moves |-> MaxMoves]
    /\ bot_configs = BotConfig({1})
    /\ \E side \in Sides :
          /\ positions = <<webhook_row(1, "BTCUSDT", side, 1, R(100, 1))>>
          /\ exch = [s \in {"BTCUSDT"} |->
                       Filled(Flat, side, 1, R(100, 1), bot_configs[1].leverage)]

NextAdmin ==
    \/ PriceMoveAround
    \/ trailing_stop_worker_load
    \/ check_trailing_stop
    \/ check_binance_non_bot_positions
    \/ check_portfolio_trailing_stop
    \/ update_position_stop_config_any
    \/ update_position_mechanism_config
    \/ update_trailing
    \/ update_trailing_settings

SpecAdmin == InitAdmin /\ [][NextAdmin]_vars

\* --------------------------- a row the worker has not yet looked at
\* under a global lock ratio of 0 an order-based signal has opened a row for
\* bot 1 with no extreme; it took the entry price 100 from the mark, or 0.0
\* when the mark could not be read
InitFirstTick ==
    /\ InitShared({"BTCUSDT"})
    /\ TRAILING_CONFIG = [TrailingConfig EXCEPT !.long_config.lock_ratio = Zero,
                                                !.short_config.lock_ratio = Zero]
    /\ running = TRUE
    /\ pc = "sleep"
    /\ budget = [faults |-> MaxFaults, calls |-> {"close", "mark_price"},
                 moves |-> MaxMoves]
    /\ bot_configs = BotConfig({1})
    /\ \E side \in Sides, entry_price \in {Zero, R(100, 1)} :
          /\ positions = <<webhook_row(1, "BTCUSDT", side, 1, entry_price)>>
          /\ exch = [s \in {"BTCUSDT"} |->
                       Filled(Flat, side, 1, R(100, 1), bot_configs[1].leverage)]

NextFirstTick ==
    \/ PriceMoveAround
    \/ trailing_stop_worker_load
    \/ check_trailing_stop
    \/ check_binance_non_bot_positions
    \/ check_portfolio_trailing_stop
    \/ update_position_stop_config

SpecFirstTick == InitFirstTick /\ [][NextFirstTick]_vars

\* ------------------- one symbol traded by hand, watched by the worker
\* no bot and no row; the account opens and closes positions on BTCUSDT
InitTracking ==
    /\ InitCommon
    /\ budget = [faults |-> MaxFaults, calls |-> {"api", "BTCUSDT"}, moves |-> MaxMoves]
    /\ bot_configs = BotConfig({})
    /\ positions = <<>>
    /\ exch = [s \in {"BTCUSDT"} |-> Flat]

NextTracking ==
    \/ PriceMoveNear
    \/ ExternalTrade
    \/ ExternalClose
    \/ trailing_stop_worker_load
    \/ check_binance_non_bot_positions
    \/ check_portfolio_trailing_stop
    \/ get_binance_open_positions

SpecTracking == InitTracking /\ [][NextTracking]_vars

\* ------------------------------------------------------------ properties
IsLong(i) == positions[i].side = "LONG"

\* C1: with entry price and stop configuration unchanged, the dynamic stop
\* price the worker computes for a position never moves against it from one
\* tick to a later one: it never decreases for LONG, never increases for SHORT.
C1_DynamicStopMonotone ==
    [][\A i \in 1..Len(positions) :
          (/\ ev'.op = "check_trailing_stop" /\ ev'.pid = i /\ ev'.evaluated
           /\ ~IsNone(last[i][2])
           /\ ~IsNone(ev'.state.dynamic_stop_price))
              => IF IsLong(i) THEN RGe(ev'.state.dynamic_stop_price, last[i][2])
                 ELSE RLe(ev'.state.dynamic_stop_price, last[i][2])]_vars

\* C1 witness: a tick evaluated an OPEN position in dynamic mode after the
\* mark had retraced from the stored extreme, and the stop stayed above entry.
C1_Witness ==
    /\ ev.op = "check_trailing_stop"
    /\ ev.evaluated
    /\ ev.state.stop_mode = "dynamic"
    /\ positions[ev.pid].status = "OPEN"
    /\ IF IsLong(ev.pid)
       THEN /\ RLt(ev.markp, positions[ev.pid].highest_price)
            /\ RGt(ev.state.dynamic_stop_price, positions[ev.pid].entry_price)
       ELSE /\ RGt(ev.markp, positions[ev.pid].highest_price)
            /\ RLt(ev.state.dynamic_stop_price, positions[ev.pid].entry_price)

\* C2 (as stated): once a worker evaluation has found a position in dynamic
\* mode, every later evaluation that leaves it OPEN finds it in dynamic mode
\* too, wherever the mark has gone.
C2_DynamicModeSticks ==
    [][\A i \in 1..Len(positions) :
          (/\ last[i][1] = "dynamic"
           /\ ev'.op = "check_trailing_stop" /\ ev'.pid = i /\ ev'.evaluated
           /\ positions'[i].status = "OPEN")
              => ev'.state.stop_mode = "dynamic"]_vars

\* C3 (as stated): once the stored extreme of a position is non-null, no step
\* moves it the unfavourable way (down for LONG, up for SHORT).
C3_ExtremeNeverRetreats ==
    [][\A i \in 1..Len(positions) :
          ~IsNone(positions[i].highest_price)
              => IF IsLong(i)
                 THEN RGe(positions'[i].highest_price, positions[i].highest_price)
                 ELSE RLe(positions'[i].highest_price, positions[i].highest_price)]_vars

\* C3 (amended): once the stored extreme is non-null and greater than zero,
\* no step moves it the unfavourable way.
C3_PositiveExtremeNeverRetreats ==
    [][\A i \in 1..Len(positions) :
          (~IsNone(positions[i].highest_price) /\ RGt(positions[i].highest_price, Zero))
              => IF IsLong(i)
                 THEN RGe(positions'[i].highest_price, positions[i].highest_price)
                 ELSE RLe(positions'[i].highest_price, positions[i].highest_price)]_vars

\* C3 witness: the worker has moved a positive extreme to a better mark and
\* then evaluated the position at a worse mark, leaving the extreme in place.
C3_Witness ==
    /\ ev.op = "check_trailing_stop"
    /\ ev.evaluated
    /\ RGt(positions[ev.pid].entry_price, Zero)
    /\ IF IsLong(ev.pid)
       THEN /\ RGt(positions[ev.pid].highest_price, positions[ev.pid].entry_price)
            /\ RLt(ev.markp, positions[ev.pid].highest_price)
       ELSE /\ RLt(positions[ev.pid].highest_price, positions[ev.pid].entry_price)
            /\ RGt(ev.markp, positions[ev.pid].highest_price)

\* C4 (as stated): after a worker stop trigger, a manual close, a close-all or
\* a signal (flatten, rebalance, reverse) whose close order the exchange did
\* not take, the row that was being closed is in status ERROR.
C4_FailedCloseMarksError ==
    (ev.op \in {"check_trailing_stop", "close_position",
                "close_all_binance_positions", "webhook_tradingview"}) =>
        \A o \in ev.orders :
            ~o.ok => \A i \in o.rows : positions[i].status = "ERROR"

\* C5 (as stated): after an operation whose close order for a symbol and side
\* the exchange took, no row that was OPEN for that symbol and side is still
\* OPEN.
C5_AcceptedCloseLeavesNoOpenRow ==
    \A o \in ev.orders :
        o.ok => \A i \in o.rows : positions[i].status # "OPEN"

\* C6: a row whose status is CLOSED or ERROR keeps that status in every step,
\* and a close request on a row that is not OPEN is rejected: it submits no
\* order and changes neither the rows nor the exchange position.
C6_TerminalStatusFinal ==
    [][/\ \A i \in 1..Len(positions) :
             positions[i].status \in {"CLOSED", "ERROR"}
                 => positions'[i].status = positions[i].status
       /\ (ev'.op = "close_position" /\ positions[ev'.pid].status # "OPEN")
             => /\ ev'.rejected
                /\ ev'.orders = {}
                /\ positions' = positions
                /\ exch' = exch]_vars

\* C6 witness: a close-all whose order the exchange took for the symbol and
\* side of a row that had ended in ERROR, the row still being in ERROR.
C6_Witness ==
    /\ ev.op = "close_all_binance_positions"
    /\ \E o \in ev.orders, i \in 1..Len(positions) :
          /\ o.ok
          /\ positions[i].status = "ERROR"
          /\ KeyOf(positions[i]) = o.key

\* C7 (as stated): every CLOSED row has a non-null exit_price and an
\* exit_reason among dynamic_stop, base_stop, manual_close, tv_exit,
\* rebalance, reverse, manual_close_all.
C7_ExitReasonEnumerated ==
    \A i \in 1..Len(positions) :
        positions[i].status = "CLOSED" =>
            /\ ~IsNone(positions[i].exit_price)
            /\ positions[i].exit_reason \in
                   {"dynamic_stop", "base_stop", "manual_close", "tv_exit",
                    "rebalance", "reverse", "manual_close_all"}

\* C7 (amended): every CLOSED row has a non-null exit_price and an
\* exit_reason among dynamic_stop, base_stop, manual_close, tv_exit,
\* tv_rebalance, tv_reverse_to_long, tv_reverse_to_short, manual_close_all,
\* dynamic_trailing.
C7_ExitReasonAsWritten ==
    \A i \in 1..Len(positions) :
        positions[i].status = "CLOSED" =>
            /\ ~IsNone(positions[i].exit_price)
            /\ positions[i].exit_reason \in
                   {"dynamic_stop", "base_stop", "manual_close", "tv_exit",
                    "tv_rebalance", "tv_reverse_to_long", "tv_reverse_to_short",
                    "manual_close_all", "dynamic_trailing"}

\* C7 witness: a row closed by a rebalancing signal next to the row that the
\* same signal opened.
C7_Witness ==
    /\ ev.op = "webhook_tradingview"
    /\ ev.case = "rebalance"
    /\ Len(positions) = 2
    /\ positions[1].status = "CLOSED"
    /\ positions[1].exit_reason = "tv_rebalance"
    /\ positions[2].status = "OPEN"

\* C8: a worker evaluation submits a close order exactly when the mode is
\* dynamic and the mark has crossed the dynamic stop, or the mode is base and
\* the mark has crossed the base stop (LONG: mark <= stop, SHORT: mark >= stop).
C8_CloseIffCrossed ==
    (ev.op = "check_trailing_stop" /\ ev.evaluated) =>
        LET st == ev.state
            long == IsLong(ev.pid)
            dyn_crossed == /\ st.stop_mode = "dynamic"
                           /\ ~IsNone(st.dynamic_stop_price)
                           /\ IF long THEN RLe(ev.markp, st.dynamic_stop_price)
                              ELSE RGe(ev.markp, st.dynamic_stop_price)
            base_crossed == /\ st.stop_mode = "base"
                            /\ ~IsNone(st.base_stop_price)
                            /\ IF long THEN RLe(ev.markp, st.base_stop_price)
                               ELSE RGe(ev.markp, st.base_stop_price)
        IN  (ev.orders # {}) <=> (dyn_crossed \/ base_crossed)

\* C8 witness: an evaluation whose mark sat exactly on the stop of its mode
\* and which therefore submitted a close order.
C8_Witness ==
    /\ ev.op = "check_trailing_stop"
    /\ ev.evaluated
    /\ ev.orders # {}
    /\ \/ ev.state.stop_mode = "dynamic" /\ ev.markp = ev.state.dynamic_stop_price
       \/ ev.state.stop_mode = "base" /\ ev.markp = ev.state.base_stop_price

\* C9: no step of the worker's per-position stop logic (the branch for rows
\* and the branch for exchange positions without a row) closes an OPEN row
\* whose built-in stop-loss toggle is off or submits a close order for it.
C9_DisabledStopNeverCloses ==
    [][pc = "check" =>
          \A i \in OpenIds :
              ~positions[i].bot_stop_loss_enabled
                  => /\ positions'[i].status = "OPEN"
                     /\ \A o \in ev'.orders : i \notin o.rows]_vars

\* C9 witness: the per-position logic of a cycle has finished and left OPEN
\* a row with the toggle off whose stop the mark has crossed.
C9_Witness ==
    /\ pc = "portfolio"
    /\ \E i \in OpenIds :
          LET position == positions[i]
              leverage == bot_leverage(position)
              mark_price == mark[position.symbol]
          IN  /\ ~position.bot_stop_loss_enabled
              /\ RGt(position.entry_price, Zero)
              /\ ~IsNone(position.highest_price)
              /\ HasLive(position.symbol)
              /\ triggered(position.side, mark_price,
                           compute_stop_state(position, mark_price,
                               calculated_unrealized_pnl_pct(position, mark_price, leverage),
                               leverage, position.qty))

\* C10: max_pnl_reached turns non-null only in a portfolio tick whose total
\* unrealized P&L is at least target_pnl, and while it stays non-null no step
\* lowers it.
C10_WatermarkArmedAtTargetAndMonotone ==
    [][/\ (IsNone(max_pnl_reached) /\ ~IsNone(max_pnl_reached'))
             => /\ ev'.op = "check_portfolio_trailing_stop"
                /\ ev'.evaluated
                /\ RGe(ev'.total_pnl, portfolio_config.target_pnl)
       /\ (~IsNone(max_pnl_reached) /\ ~IsNone(max_pnl_reached'))
             => RGe(max_pnl_reached', max_pnl_reached)]_vars

\* C10 witness: a portfolio tick that found the total below the armed
\* watermark and kept the watermark.
C10_Witness ==
    /\ ev.op = "check_portfolio_trailing_stop"
    /\ ev.evaluated
    /\ ~IsNone(max_pnl_reached)
    /\ RLt(ev.total_pnl, max_pnl_reached)

\* C11: on a tick of the enabled controller that has read the account, with w
\* the watermark the tick works with (max_pnl_reached after the tick's arming
\* or raising step): if w is non-null and the total is at most w times the
\* lock ratio, a reduce-only close order is submitted for every live exchange
\* position, every position whose order the exchange takes is flat, and
\* max_pnl_reached is null afterwards; if the total is above that threshold,
\* or w is null, no order is submitted and no exchange position changes.
C11_PortfolioSellAtThreshold ==
    [][(ev'.op = "check_portfolio_trailing_stop" /\ ev'.evaluated) =>
          LET total == ev'.total_pnl
              w == IF /\ RGe(total, portfolio_config.target_pnl)
                      /\ (IsNone(max_pnl_reached) \/ RGt(total, max_pnl_reached))
                   THEN total ELSE max_pnl_reached
              lock == IF ~IsNone(portfolio_config.lock_ratio)
                      THEN portfolio_config.lock_ratio
                      ELSE TRAILING_CONFIG.long_config.lock_ratio
              live == {s \in Symbols : exch[s].amt # 0}
          IN  IF ~IsNone(w) /\ RLe(total, RMul(w, lock))
              THEN /\ {o.key[1] : o \in ev'.orders} = live
                   /\ \A o \in ev'.orders : o.ok => exch'[o.key[1]].amt = 0
                   /\ IsNone(max_pnl_reached')
              ELSE /\ ev'.orders = {}
                   /\ exch' = exch]_vars

\* C11 witness: a tick that found the total exactly on the threshold of a
\* watermark armed on an earlier tick, closed the live position and cleared
\* the watermark.
C11_Witness ==
    /\ ev.op = "check_portfolio_trailing_stop"
    /\ ev.evaluated
    /\ ev.orders # {}
    /\ \A o \in ev.orders : o.ok
    /\ RLt(ev.total_pnl, portfolio_config.target_pnl)
    /\ IsNone(max_pnl_reached)
    /\ \A s \in Symbols : exch[s].amt = 0

\* C12: the worker task ends only after shutdown was requested, and as long
\* as shutdown is not requested it starts a next cycle again and again,
\* whichever call of a cycle fails.
C12_WorkerNeverTerminates ==
    /\ [](pc = "stopped" => ~running)
    /\ []<>(~running \/ ev.op = "load")

\* C12 witness: a cycle started after a call of an earlier cycle had failed.
C12_Witness ==
    /\ running
    /\ ev.op = "load"
    /\ ~ev.raised
    /\ budget.faults < MaxFaults

\* C13: an evaluation that raises leaves every other row loaded in the cycle
\* to be evaluated: the loop goes on with the rest of the rows, and the
\* branch after the loop starts only when no loaded row is left.
C13_RaiseDoesNotEndLoop ==
    [][/\ (ev'.op = "check_trailing_stop" /\ ev'.raised)
             => (pending' = Tail(pending) /\ pc' = "check")
       /\ (ev'.op = "check_binance_non_bot_positions") => pending = <<>>]_vars

\* C13 witness: the evaluation of a row has raised while another row loaded
\* in the same cycle is still to be evaluated.
C13_Witness ==
    /\ ev.op = "check_trailing_stop"
    /\ ev.raised
    /\ pc = "check"
    /\ pending # <<>>

C14_SymbolFailureIsolated ==
    (ev.op = "check_binance_non_bot_positions" /\ ev.failed # {})
        => (ev.reported \ ev.failed) \subseteq ev.handled

\* C16: for a position whose lock-ratio override is exactly 0 the calculator
\* returns mode base or none, never dynamic, whatever the entry price, the
\* extreme, the mark price, the profit percentage and the global configuration.
C16_ZeroLockRatioNeverDynamic ==
    (ev.op = "compute_stop_state" /\ positions[ev.pid].trail_callback = Zero)
        => /\ ev.state.stop_mode \in {"base", "none"}
           /\ IsNone(ev.state.dynamic_stop_price)

\* C16 witness: with an override of 0, trailing globally enabled and a PnL%
\* far above the threshold, the calculator answered base.
C16_Witness ==
    /\ ev.op = "compute_stop_state"
    /\ positions[ev.pid].trail_callback = Zero
    /\ TRAILING_CONFIG.trailing_enabled
    /\ ev.total_pnl = R(50, 1)
    /\ ev.state.stop_mode = "base"

\* C17: for a position whose entry price is zero or negative the calculator
\* returns mode none with both stop prices null, whatever the mark price, the
\* side and the configuration, and it returns instead of raising.
C17_InvalidEntryGivesNone ==
    (ev.op = "compute_stop_state" /\ RLe(positions[ev.pid].entry_price, Zero))
        => /\ ev.state = StopState("none", None, None)
           /\ ~ev.raised

\* C17 witness: a row with a negative entry price, overrides set and a high
\* PnL% was given to the calculator, which answered none.
C17_Witness ==
    /\ ev.op = "compute_stop_state"
    /\ RLt(positions[ev.pid].entry_price, Zero)
    /\ positions[ev.pid].trail_callback = R(1, 2)
    /\ ev.total_pnl = R(50, 1)
    /\ ev.state.stop_mode = "none"

\* C18: Scenario A.  For the LONG position with entry 100, profit threshold
\* 1 %, lock ratio 0.5 and base stop 3 %, a worker tick at mark 102 computes
\* mode dynamic with dynamic stop price 101, and a tick at mark 100.5 after
\* the extreme reached 102 closes the position.
C18_ScenarioA ==
    (ev.op = "check_trailing_stop" /\ ev.evaluated)
        => /\ ev.markp = R(102, 1)
                => /\ ev.state.stop_mode = "dynamic"
                   /\ ev.state.dynamic_stop_price = R(101, 1)
           /\ (ev.markp = R(201, 2) /\ positions[ev.pid].highest_price = R(102, 1))
                => /\ ev.state.stop_mode = "dynamic"
                   /\ ev.state.dynamic_stop_price = R(101, 1)
                   /\ \E o \in ev.orders : o.ok
                   /\ positions[ev.pid].status = "CLOSED"
                   /\ positions[ev.pid].exit_reason = "dynamic_stop"
                   /\ ~HasLive(positions[ev.pid].symbol)

\* C18 witness: the mark rose to 102, a tick stored it, the mark dropped to
\* 100.5 and the next tick closed the position on its dynamic stop of 101.
C18_Witness ==
    /\ ev.op = "check_trailing_stop"
    /\ ev.evaluated
    /\ ev.markp = R(201, 2)
    /\ positions[ev.pid].highest_price = R(102, 1)
    /\ positions[ev.pid].entry_price = R(100, 1)
    /\ ev.state.dynamic_stop_price = R(101, 1)
    /\ positions[ev.pid].status = "CLOSED"

\* a worker tick evaluated the position, whose stored extreme has not gone
\* beyond 100.9
C19_Tick ==
    /\ ev.op = "check_trailing_stop"
    /\ ev.evaluated
    /\ RLe(positions[ev.pid].highest_price, R(1009, 10))

\* the tick found base mode and left the position open unless the mark was at
\* or below the base stop price
C19_Outcome ==
    /\ ev.state.stop_mode = "base"
    /\ RGt(ev.markp, ev.state.base_stop_price)
            => (ev.orders = {} /\ positions[ev.pid].status = "OPEN")

\* C19 (as stated): Scenario B.  For the same position, as long as the mark
\* has not exceeded 100.9 every worker tick computes mode base, and the
\* position is not closed while the mark is above the base stop price.
C19_ScenarioB == C19_Tick => C19_Outcome

\* C19 (amended): the same for the position held with leverage 1, for which
\* the PnL% on the margin equals the price percentage.
C19_ScenarioBLeverageOne ==
    (C19_Tick /\ bot_configs[positions[ev.pid].bot_id].leverage = 1)
        => C19_Outcome

\* C19 witness: with leverage 1 a tick at mark 100.9 found base mode, with
\* the base stop at 97.9, and left the position open.
C19_Witness ==
    /\ C19_Tick
    /\ bot_configs[positions[ev.pid].bot_id].leverage = 1
    /\ ev.markp = R(1009, 10)
    /\ ev.state.stop_mode = "base"
    /\ ev.state.base_stop_price = R(979, 10)
    /\ positions[ev.pid].status = "OPEN"

\* C20: a signal with target size zero for a bot holding an OPEN row closes
\* that row only if the row's flatten toggle is enabled: with the toggle
\* enabled a close order is submitted and, once taken, the row is CLOSED with
\* reason tv_exit; with the toggle disabled no order is submitted and the row,
\* like every other row and the exchange position, is left as it was.
C20_FlattenHonoursToggle ==
    [][(/\ ev'.op = "webhook_tradingview"
        /\ ev'.signal = <<"position_size", 0>>
        /\ ev'.pid # 0)
          => IF positions[ev'.pid].tv_signal_close_enabled
             THEN /\ \E o \in ev'.orders : ev'.pid \in o.rows
                  /\ \A o \in ev'.orders :
                        o.ok => /\ positions'[ev'.pid].status = "CLOSED"
                                /\ positions'[ev'.pid].exit_reason = "tv_exit"
             ELSE /\ ev'.orders = {}
                  /\ positions' = positions
                  /\ positions[ev'.pid].status = "OPEN"
                  /\ exch' = exch]_vars

\* C20 witness: a flatten signal met an OPEN row whose flatten toggle had been
\* switched off, and answered tv_signal_close_disabled.
C20_Witness ==
    /\ ev.op = "webhook_tradingview"
    /\ ev.signal = <<"position_size", 0>>
    /\ ev.pid # 0
    /\ positions[ev.pid].status = "OPEN"
    /\ ~positions[ev.pid].tv_signal_close_enabled
    /\ ev.case = "tv_signal_close_disabled"

\* C21 helpers: the signal just handled was position-based, met the OPEN row
\* ev'.pid of the bot, and asked for that row's side
C21_SameSideSignal ==
    /\ ev'.op = "webhook_tradingview"
    /\ ev'.signal[1] = "position_size"
    /\ ev'.pid # 0
    /\ ev'.signal[2] # 0
    /\ (ev'.signal[2] > 0) = (positions[ev'.pid].side = "LONG")

C21_Near(target) ==
    LET current == R(positions[ev'.pid].qty, 1)
    IN  \/ target = current
        \/ RLe(RDiv(RAbs(RSub(target, current)), current), R(1, 10))

C21_NothingDone ==
    /\ ev'.orders = {}
    /\ positions' = positions
    /\ exch' = exch

\* C21: in position-based mode, a signal whose target size equals the
\* quantity of the bot's OPEN row, or is on the same side and differs from it
\* by at most 10 % of it, submits no order and changes no Position row.
C21_NearTargetIsNoOp ==
    [][(C21_SameSideSignal /\ C21_Near(R(Abs(ev'.signal[2]), 1)))
          => C21_NothingDone]_vars

\* C21 (amended): the same for the target the handler compares, which is the
\* signal's size limited by the bot's max_invest_usdt at the current price.
C21_NearCappedTargetIsNoOp ==
    [][(C21_SameSideSignal /\ C21_Near(ev'.target)) => C21_NothingDone]_vars

\* C21 witness: a signal whose size was cut by the investment cap to within
\* 10 % of the row's quantity was answered with qty_diff_small.
C21_Witness ==
    /\ ev.op = "webhook_tradingview"
    /\ ev.case = "qty_diff_small"
    /\ ev.pid # 0
    /\ positions[ev.pid].status = "OPEN"
    /\ ev.target # R(Abs(ev.signal[2]), 1)
    /\ ev.target # R(positions[ev.pid].qty, 1)

\* C22: when a position-based signal reverses or rebalances the bot's row and
\* opens the new position, the row it met is CLOSED by then and the bot's
\* only OPEN row for the symbol is the new one, on the side of the target.
C22_ClosedBeforeReopened ==
    [][(/\ ev'.op = "webhook_tradingview"
        /\ ev'.case \in {"rebalance", "reverse"}
        /\ Len(positions') > Len(positions))
          => /\ positions'[ev'.pid].status = "CLOSED"
             /\ \A i \in 1..Len(positions') :
                   (/\ positions'[i].status = "OPEN"
                    /\ positions'[i].bot_id = positions[ev'.pid].bot_id
                    /\ positions'[i].symbol = positions[ev'.pid].symbol)
                      => /\ i = Len(positions')
                         /\ positions'[i].side
                               = (IF ev'.signal[2] > 0 THEN "LONG" ELSE "SHORT")]_vars

\* C23: a Position row that is CLOSED or ERROR is left as it is, field by
\* field, by every operation.
C23_ClosedRowImmutable ==
    [][\A i \in 1..Len(positions) :
          positions[i].status \in {"CLOSED", "ERROR"}
              => /\ i <= Len(positions')
                 /\ positions'[i] = positions[i]]_vars

\* C24: an administrative update (global trailing settings, stop
\* configuration, trailing percentage or mechanism toggles of a position),
\* wherever it falls between worker ticks, leaves a non-null extreme price
\* non-null and does not move it against the position: not down for LONG, not
\* up for SHORT.
C24_AdminKeepsExtreme ==
    [][ev'.op \in {"update_trailing_settings", "update_position_stop_config",
                   "update_trailing", "update_position_mechanism_config"}
          => /\ Len(positions') = Len(positions)
             /\ \A i \in 1..Len(positions) :
                   ~IsNone(positions[i].highest_price)
                      => /\ ~IsNone(positions'[i].highest_price)
                         /\ IF IsLong(i)
                            THEN RGe(positions'[i].highest_price,
                                     positions[i].highest_price)
                            ELSE RLe(positions'[i].highest_price,
                                     positions[i].highest_price)]_vars

\* C24 witness: the trailing percentage of an OPEN row was updated while the
\* mark stood on the unfavourable side of the extreme that worker ticks had
\* moved away from the entry price.
C24_Witness ==
    /\ ev.op = "update_trailing"
    /\ ~ev.rejected
    /\ positions[ev.pid].status = "OPEN"
    /\ ~IsNone(positions[ev.pid].highest_price)
    /\ positions[ev.pid].highest_price # positions[ev.pid].entry_price
    /\ IF IsLong(ev.pid)
       THEN RLt(mark[positions[ev.pid].symbol], positions[ev.pid].highest_price)
       ELSE RGt(mark[positions[ev.pid].symbol], positions[ev.pid].highest_price)

C25_InRange(r) == IsNone(r) \/ (RGe(r, Zero) /\ RLe(r, One))

\* C25: every stored lock ratio (of a Position row, of either side of the
\* global settings, of an exchange-position override, of the portfolio
\* settings) lies in [0, 1], whatever the administrative updates submitted.
C25_LockRatiosInRange ==
    /\ \A i \in 1..Len(positions) : C25_InRange(positions[i].trail_callback)
    /\ C25_InRange(TRAILING_CONFIG.long_config.lock_ratio)
    /\ C25_InRange(TRAILING_CONFIG.short_config.lock_ratio)
    /\ \A k \in DOMAIN overrides : C25_InRange(overrides[k].trail_callback)
    /\ C25_InRange(portfolio_config.lock_ratio)

\* C26: a worker tick that finds the extreme price of a position null, and
\* gets the mark, sets the extreme to that mark and submits no close order,
\* whatever the mark (stated for the ticks that leave the row with a valid
\* entry price).
C26_FirstTickOnlyInitialises ==
    [][(/\ ev'.op = "check_trailing_stop"
        /\ ~IsNone(ev'.markp)
        /\ IsNone(positions[ev'.pid].highest_price)
        /\ RGt(positions'[ev'.pid].entry_price, Zero))
          => /\ positions'[ev'.pid].highest_price = ev'.markp
             /\ ev'.orders = {}
             /\ positions'[ev'.pid].status = "OPEN"
             /\ exch' = exch]_vars

\* C27: when the close order of a worker tick has failed, the step of the same
\* worker cycle that follows it (the tick of the next row, or the branch for
\* the positions found on the exchange) submits no close order for the same
\* symbol and side.
C27_NoSecondCloseInCycle ==
    [][(/\ ev.op = "check_trailing_stop"
        /\ ev'.op \in {"check_trailing_stop", "check_binance_non_bot_positions"})
          => \A o \in ev.orders, n \in ev'.orders : ~o.ok => n.key # o.key]_vars

C28_Diverged(tracked_entry, entry_price) ==
    RGt(RDiv(RAbs(RSub(tracked_entry, entry_price)),
             RMax(RMax(RAbs(tracked_entry), RAbs(entry_price)), One)),
        R(1, 1000))

\* C28: a tracking entry that is there before and after a step is either left
\* as it was, or keeps its entry price and moves its extreme in the favourable
\* direction only (up for LONG, down for SHORT), or, where the entry price the
\* exchange reports differs from the tracked one by more than 0.1 %, is
\* initialised anew from the reported entry price.
C28_TrackedExtremeFavourable ==
    [][\A k \in Keys :
          (/\ tracking[k] # NoTrack
           /\ tracking'[k] # NoTrack
           /\ tracking'[k] # tracking[k])
              => IF C28_Diverged(tracking[k].entry_price, exch[k[1]].entryPrice)
                 THEN /\ tracking'[k].entry_price = exch[k[1]].entryPrice
                      /\ tracking'[k].highest_price
                            = (IF k[2] = "LONG"
                               THEN RMax(mark[k[1]], exch[k[1]].entryPrice)
                               ELSE RMin(mark[k[1]], exch[k[1]].entryPrice))
                 ELSE /\ tracking'[k].entry_price = tracking[k].entry_price
                      /\ IF k[2] = "LONG"
                         THEN RGt(tracking'[k].highest_price, tracking[k].highest_price)
                         ELSE RLt(tracking'[k].highest_price, tracking[k].highest_price)]_vars

\* C28 witness: after a worker tick the tracked extreme of a position opened
\* by hand stands beyond the mark, on the favourable side of it, and away
\* from the entry price: the tick kept it while the mark came back.
C28_Witness ==
    /\ ev.op = "check_binance_non_bot_positions"
    /\ \E k \in Keys :
          /\ tracking[k] # NoTrack
          /\ HasLive(k[1]) /\ ExchSide(k[1]) = k[2]
          /\ tracking[k].highest_price # tracking[k].entry_price
          /\ IF k[2] = "LONG" THEN RGt(tracking[k].highest_price, mark[k[1]])
             ELSE RLt(tracking[k].highest_price, mark[k[1]])

\* The loop of trailing_stop_worker never ends: the event loop resumes the
\* task whenever it can take a step.  Requests and the market have no such
\* duty.
SpecTrackingFair ==
    InitTracking /\ [][NextTracking]_vars /\ WF_vars(trailing_stop_worker)

\* C29: a tracking entry whose symbol the exchange reports without quantity
\* is deleted in the course of the worker's cycles (unless a position is
\* opened on the symbol again before).
C29_StaleEntryDeleted ==
    \A k \in {"BTCUSDT"} \X {"LONG", "SHORT"} :
        (tracking[k] # NoTrack /\ exch[k[1]].amt = 0)
            ~> (tracking[k] = NoTrack \/ exch[k[1]].amt # 0)

\* C30: when the stop of a position opened by hand triggers, a close order
\* that succeeds leaves exactly one new Position row for its symbol and side
\* (no owning bot, status CLOSED, an exit price) and removes its tracking
\* entry; a close order that fails leaves no new row for it.  Rows that were
\* there before stay as they were.
C30_SyntheticRowOnClose ==
    [][ev'.op = "check_binance_non_bot_positions" =>
          /\ Len(positions') >= Len(positions)
          /\ SubSeq(positions', 1, Len(positions)) = positions
          /\ \A o \in ev'.orders :
                \E new \in {{i \in (Len(positions) + 1)..Len(positions') :
                                KeyOf(positions'[i]) = o.key}} :
                   IF o.ok
                   THEN /\ Cardinality(new) = 1
                        /\ \A i \in new :
                              /\ positions'[i].bot_id = 0
                              /\ positions'[i].status = "CLOSED"
                              /\ ~IsNone(positions'[i].exit_price)
                        /\ tracking'[o.key] = NoTrack
                   ELSE new = {}]_vars

\* C30 witness: one worker tick in which the stop of two positions opened by
\* hand triggered, one close order succeeded and the other one failed
C30_Witness ==
    /\ ev.op = "check_binance_non_bot_positions"
    /\ \E o1, o2 \in ev.orders : o1.ok /\ ~o2.ok
    /\ \E i \in DOMAIN positions :
          positions[i].bot_id = 0 /\ positions[i].status = "CLOSED"

\* C31: two rows of the same symbol, side and quantity that are evaluated one
\* after the other in one worker cycle, and whose stop both triggered, end
\* the cycle with the same status.  (Were the outcome of a cycle independent
\* of the order of evaluation, it could not tell such rows apart: evaluated
\* the other way round the two rows change places.)
C31_SameOutcomeWhateverTheOrder ==
    [][(/\ pc = "check"
        /\ ev.op = "check_trailing_stop" /\ ev.orders # {}
        /\ ev'.op = "check_trailing_stop" /\ ev'.orders # {}
        /\ budget' = budget
        /\ KeyOf(positions'[ev.pid]) = KeyOf(positions'[ev'.pid])
        /\ positions'[ev.pid].qty = positions'[ev'.pid].qty)
          => positions'[ev.pid].status = positions'[ev'.pid].status]_vars

\* C32: a request for the global trailing settings of which a field fails
\* its validation leaves the global configuration and every Position row as
\* they were; and whenever the global configuration changes, it changes in
\* one step to what one request made of it with all its fields: the lock
\* ratio of each side either as before or as submitted (above 1: 1), both
\* switches on.
C32_SettingsUpdateAllOrNothing ==
    [][/\ (ev'.op = "update_trailing_settings" /\ ev'.rejected)
            => (TRAILING_CONFIG' = TRAILING_CONFIG /\ positions' = positions)
       /\ TRAILING_CONFIG' # TRAILING_CONFIG
            => /\ ev'.op = "update_trailing_settings" /\ ~ev'.rejected
               /\ \E long_ratio, short_ratio \in {None, R(3, 2)} :
                    TRAILING_CONFIG' =
                        [TRAILING_CONFIG EXCEPT
                            !.trailing_enabled = TRUE, !.auto_close_enabled = TRUE,
                            !.long_config.lock_ratio =
                                IF IsNone(long_ratio) THEN @ ELSE One,
                            !.short_config.lock_ratio =
                                IF IsNone(short_ratio) THEN @ ELSE One]]_vars

\* C32 witness: a request was refused, after an earlier one had changed the
\* lock ratio of a side
C32_Witness ==
    /\ ev.op = "update_trailing_settings" /\ ev.rejected
    /\ TRAILING_CONFIG.long_config.lock_ratio # TRAILING_CONFIG.short_config.lock_ratio
    /\ \E i \in DOMAIN positions : positions[i].status = "OPEN"

\* C33: when a request changes the global lock ratio of a side from an old
\* to a new value, every OPEN row of that side whose stored lock ratio was
\* the old value carries the new one afterwards, nothing else of it changed,
\* and every other row is as it was.
C33_FollowersGetNewRatio ==
    [][(ev'.op = "update_trailing_settings" /\ ~ev'.rejected)
          => /\ Len(positions') = Len(positions)
             /\ \A i \in 1..Len(positions) :
                  \E old \in {get_config_for_side(positions[i].side).lock_ratio} :
                  \E new \in {IF positions[i].side = "LONG"
                              THEN TRAILING_CONFIG'.long_config.lock_ratio
                              ELSE TRAILING_CONFIG'.short_config.lock_ratio} :
                     IF /\ old # new
                        /\ positions[i].status = "OPEN"
                        /\ positions[i].trail_callback = old
                     THEN positions'[i] = [positions[i] EXCEPT !.trail_callback = new]
                     ELSE positions'[i] = positions[i]]_vars

\* C33 witness: an OPEN row that had the old global lock ratio of its side
\* has followed an update of it to 1
C33_Witness ==
    /\ ev.op = "update_trailing_settings" /\ ~ev.rejected
    /\ \E i \in ev.handled :
          /\ positions[i].status = "OPEN"
          /\ positions[i].trail_callback = One
          /\ get_config_for_side(positions[i].side).lock_ratio = One

\* C34: the listing of the live exchange positions, which computes the stop
\* state of each for display, leaves every Position row, every entry of the
\* non-bot tracking map and every configuration as they were.
C34_ListingIsReadOnly ==
    [][ev'.op = "get_binance_open_positions"
          => /\ positions' = positions
             /\ tracking' = tracking
             /\ UNCHANGED cfgVars]_vars

\* a call of compute_stop_state for the row with a quantity and a leverage
\* of the caller's, zero included
compute_stop_state_sized ==
    \E mark_price \in Prices, leverage \in {0, 1, DefaultLeverage}, qty \in 0..2 :
        /\ ev' = [NoEv EXCEPT
                    !.op = "compute_stop_state", !.pid = 1, !.markp = mark_price,
                    !.signal = <<"leverage", leverage, "qty", qty>>,
                    !.state = compute_stop_state(positions[1], mark_price,
                                                 None, leverage, qty)]
        /\ UNCHANGED <<tv_signal_logs, now,
                       positions, mark, exch, tracking, max_pnl_reached, cfgVars,
                       workerVars, budget, last>>

SpecSized == InitCalc /\ [][compute_stop_state_sized]_vars

\* the base stop price at distance entry * base_sl_pct / (100 * leverage)
\* from the extreme the calculator works with, on the losing side of it
C35_AtMarginDistance(position, mark_price, leverage) ==
    LET dist == RDiv(RMul(position.entry_price, base_sl_pct(position)),
                     R(100 * leverage, 1))
    IN  IF position.side = "LONG"
        THEN RSub(best_of(position, mark_price), dist)
        ELSE RAdd(best_of(position, mark_price), dist)

\* C35 as stated: with base_sl_pct > 0 and a positive quantity and leverage
\* the base stop price lies at that distance from the extreme, whatever the
\* quantity; otherwise it is null.
C35_BaseStopAtMarginDistance ==
    ev.op = "compute_stop_state"
        => \E position \in {positions[ev.pid]}, leverage \in {ev.signal[2]},
              qty \in {ev.signal[4]} :
              IF RGt(base_sl_pct(position), Zero) /\ qty > 0 /\ leverage > 0
              THEN ev.state.base_stop_price
                      = C35_AtMarginDistance(position, ev.markp, leverage)
              ELSE IsNone(ev.state.base_stop_price)

\* C35 amended: the same for a position with a positive entry price; with an
\* entry price of zero or below the base stop price is null as well.
C35_BaseStopAtMarginDistanceOfValidEntry ==
    ev.op = "compute_stop_state"
        => \E position \in {positions[ev.pid]}, leverage \in {ev.signal[2]},
              qty \in {ev.signal[4]} :
              IF /\ RGt(base_sl_pct(position), Zero) /\ qty > 0 /\ leverage > 0
                 /\ RGt(position.entry_price, Zero)
              THEN ev.state.base_stop_price
                      = C35_AtMarginDistance(position, ev.markp, leverage)
              ELSE IsNone(ev.state.base_stop_price)

\* C35 witness: a SHORT row of entry 100 with a base stop of 3 %, computed
\* for quantity 2 and leverage 20 at mark 98: the base stop is 98.15
C35_Witness ==
    /\ ev.op = "compute_stop_state"
    /\ ev.signal = <<"leverage", DefaultLeverage, "qty", 2>>
    /\ positions[ev.pid].side = "SHORT"
    /\ positions[ev.pid].entry_price = R(100, 1)
    /\ positions[ev.pid].base_stop_loss_pct = R(3, 1)
    /\ ev.markp = R(98, 1)
    /\ ev.state.base_stop_price = R(9815, 100)

C37_AtMostOneOpenRow ==
    \A b \in BotIds :
        Cardinality({i \in OpenIds : /\ positions[i].bot_id = b
                                     /\ positions[i].symbol = bot_configs[b].symbol}) <= 1

\* the dynamic stop that a worker tick computes for row i from the state as
\* it stands: entry corrected, extreme moved to the mark, stop state computed
C38_TickStop(i) ==
    LET current_price == mark[positions[i].symbol]
        pos1 == corrected_entry(positions[i], current_price)
        pos2 == [pos1 EXCEPT !.highest_price =
                    new_extreme(pos1.side, pos1.highest_price, current_price)]
    IN  worker_stop_state(pos2, current_price).dynamic_stop_price

\* C38: a change of the lock ratio that applies to an OPEN position, made
\* between two worker ticks by the stop configuration of the position, its
\* trailing update or the global settings update, never loosens its dynamic
\* stop: the dynamic stop price of the next tick is not below the one the last
\* tick computed for LONG, not above it for SHORT.
C38_RatioChangeNeverLoosens ==
    [][ev'.op \in {"update_position_stop_config", "update_trailing",
                   "update_trailing_settings"}
          => \A i \in 1..Len(positions) :
                (/\ positions[i].status = "OPEN"
                 /\ positions'[i].status = "OPEN"
                 /\ positions[i].bot_stop_loss_enabled
                 /\ ~IsNone(positions[i].highest_price)
                 /\ last[i][1] = "dynamic"
                 /\ ~IsNone(last[i][2])
                 /\ lock_ratio(positions[i])' # lock_ratio(positions[i])
                 /\ ~IsNone(C38_TickStop(i)'))
                    => IF IsLong(i)
                       THEN RGe(C38_TickStop(i)', last[i][2])
                       ELSE RLe(C38_TickStop(i)', last[i][2])]_vars

\* ----------------- two rows on one exchange position, one close may fail
\* bots 1 and 2 hold a row each for the same symbol and side and the exchange
\* position covers both; a close order of the worker may be turned away, and
\* the administrator switches the mechanisms of a row on and off
InitShadowed ==
    /\ InitCommon
    /\ budget = [faults |-> MaxFaults, calls |-> {"close"}, moves |-> MaxMoves]
    /\ bot_configs = BotConfig(BotIds)
    /\ \E side \in Sides :
        /\ positions = <<webhook_row(1, "BTCUSDT", side, 1, R(100, 1)),
                         webhook_row(2, "BTCUSDT", side, 1, R(100, 1))>>
        /\ exch = [s \in {"BTCUSDT"} |->
                     Filled(Flat, side, 2, R(100, 1), bot_configs[2].leverage)]

NextShadowed ==
    \/ PriceMoveNear
    \/ trailing_stop_worker_load
    \/ check_trailing_stop
    \/ check_binance_non_bot_positions
    \/ check_portfolio_trailing_stop
    \/ update_position_mechanism_config

SpecShadowed == InitShadowed /\ [][NextShadowed]_vars

DuplicateWindow == 60
MaxNow == 122

\* time passes between two requests
Tick ==
    /\ pc = "sleep"
    /\ \E seconds \in {DuplicateWindow - 1, DuplicateWindow, DuplicateWindow + 1} :
          /\ now + seconds <= MaxNow
          /\ now' = now + seconds
    /\ ev' = NoEv
    /\ UNCHANGED <<tv_signal_logs, positions, mark, exch, tracking, max_pnl_reached,
                   cfgVars, workerVars, budget, last>>

\* the fields of a signal that the duplicate check compares (the quantity of
\* a signal is the one of its bot)
signal_fingerprint(b, has_size, size, side) ==
    [bot_key |-> b, symbol |-> bot_configs[b].symbol, side |-> side,
     qty |-> bot_configs[b].qty,
     position_size |-> IF has_size THEN R(size, 1) ELSE None]

\* faulty variant: the age of the logged row is not looked at
existing_duplicate_of_any_age(fingerprint) ==
    {log \in tv_signal_logs : log.fingerprint = fingerprint}

\* the rows of the log with the same fields, received in the last 60 seconds
existing_duplicate(fingerprint) ==
    {log \in tv_signal_logs :
        /\ log.fingerprint = fingerprint
        /\ log.received_at >= now - DuplicateWindow}

\* POST /webhook/tradingview with a bot_key: the duplicate check, the row of
\* the log, the lookup of the enabled bot and the handling for that bot
webhook_tradingview_logged ==
    \E signal \in {<<1, FALSE, 0, "BUY">>, <<1, FALSE, 0, "SELL">>,
                    <<1, TRUE, 1, "BUY">>, <<2, FALSE, 0, "BUY">>} :
        LET b == signal[1]
            has_size == signal[2]
            size == signal[3]
            side == signal[4]
            fingerprint == signal_fingerprint(b, has_size, size, side)
            me == [NoEv EXCEPT !.op = "webhook_tradingview",
                               !.signal = <<fingerprint, now>>]
        IN  IF existing_duplicate(fingerprint) # {}
            THEN /\ pc = "sleep"
                 /\ ev' = [me EXCEPT !.rejected = TRUE, !.case = "duplicate"]
                 /\ UNCHANGED <<tv_signal_logs, now, positions, mark, exch, tracking,
                                max_pnl_reached, cfgVars, workerVars, budget, last>>
            ELSE /\ tv_signal_logs' = tv_signal_logs
                         \cup {[fingerprint |-> fingerprint, received_at |-> now]}
                 /\ now' = now
                 /\ IF bot_configs[b].enabled
                    THEN webhook_tradingview(b, has_size, size, side, MaxExchQty)
                    ELSE /\ pc = "sleep"
                         /\ ev' = [me EXCEPT !.case = "no_active_bot"]
                         /\ UNCHANGED <<positions, mark, exch, tracking, max_pnl_reached,
                                        cfgVars, workerVars, budget, last>>

NextDuplicate ==
    \/ Tick
    \/ webhook_tradingview_logged

SpecDuplicate == InitClose /\ [][NextDuplicate]_vars

\* C40: a signal that repeats a logged signal (same bot key, symbol, side,
\* quantity and position size) within 60 seconds of it is skipped, with no
\* order submitted and no row created or changed: whatever a request submits
\* or changes, it is the request of a signal that was logged for it and that
\* repeats no row of the last 60 seconds. The same signal more than 60
\* seconds later is not skipped: a request is skipped only when a row with
\* its fields was logged at most 60 seconds before.
C40_RepeatSkippedWithinWindow ==
    [][ev'.op = "webhook_tradingview"
          => /\ (positions' # positions \/ exch' # exch \/ ev'.orders # {})
                    => tv_signal_logs' # tv_signal_logs
             /\ \A new \in tv_signal_logs' \ tv_signal_logs :
                    /\ new.received_at = now
                    /\ \A log \in tv_signal_logs :
                          log.fingerprint = new.fingerprint
                              => now - log.received_at > DuplicateWindow
             /\ ev'.case = "duplicate"
                    => /\ positions' = positions
                       /\ exch' = exch
                       /\ ev'.orders = {}
                       /\ tv_signal_logs' = tv_signal_logs
                       /\ \E log \in tv_signal_logs :
                             /\ log.fingerprint = ev'.signal[1]
                             /\ now - log.received_at <= DuplicateWindow]_vars

\* C40 witness: an order-based signal of the enabled bot was handled, came
\* again more than 60 seconds later and opened a second row, and its next
\* repeat, within 60 seconds of that, has just been skipped.
C40_Witness ==
    /\ ev.op = "webhook_tradingview"
    /\ ev.case = "duplicate"
    /\ bot_configs[ev.signal[1].bot_key].enabled
    /\ IsNone(ev.signal[1].position_size)
    /\ Len(positions) = 2
    /\ \E first, second \in tv_signal_logs :
          /\ first.fingerprint = ev.signal[1]
          /\ second.fingerprint = ev.signal[1]
          /\ second.received_at - first.received_at > DuplicateWindow
          /\ now > second.received_at
          /\ now - second.received_at <= DuplicateWindow

====
